---- MODULE Spec2Model ----
(***************************************************************************)
(* Model of the SPDX schema extractor of internal/gen (Parser.ParseFile    *)
(* and its helpers).  A JSON document is a tree of tagged records, a Go    *)
(* string is a TLA+ string, a Go map is a function whose DOMAIN is the key *)
(* set, and a `for k, v := range m` loop visits the keys in an order       *)
(* chosen nondeterministically, one key per step.                          *)
(***************************************************************************)
EXTENDS Integers, Sequences, FiniteSets, TLC

VARIABLES
    nodes,       \* Parser.nodes: "@id" -> RDFNode, nodes with an IRI
    blankNodes,  \* Parser.blankNodes: "@id" -> RDFNode, ids starting with "_:"
    input,       \* the file handed to the running (or last) ParseFile call
    model,       \* the local `model` of ParseFile (Nil before NewModel())
    origin,      \* ghost: class IRI -> blank-node ids its Properties came from
    ret,         \* what the last ParseFile call returned: [model, err]
    pc,          \* position inside ParseFile
    todo,        \* keys the current range loop over p.nodes has not visited
    calls,       \* ParseFile calls started on this Parser
    fed,         \* array elements handed to this Parser so far
    pool,        \* the graph nodes the files of this run are written from
    givenIRI,    \* the IRI handed to extractName / extractNamespace
    derived,     \* what the two functions returned for it (Nil before)
    cmd,         \* the spdx-gen process (Nil while no process runs)
    reader,      \* a Reader.Read call: its data, position, Document and error
    norm         \* a string and the results of NormalizeRelationshipType on it

parserVars == <<nodes, blankNodes, input, model, origin, ret, pc, todo, calls, fed>>

\* what the Parser's steps leave alone
notParser == <<pool, givenIRI, derived, cmd, reader, norm>>

vars == <<parserVars, notParser>>

(***************************************************************************)
(* Bounds of the model.                                                    *)
(***************************************************************************)
MaxNodes == 3    \* array elements handed to one Parser, over all its calls
MaxCalls == 2    \* ParseFile calls on one Parser
MaxTail  == 3    \* characters of the generated part of an IRI

(***************************************************************************)
(* Vocabulary constants of parser.go.                                      *)
(***************************************************************************)
owlClass            == "http://www.w3.org/2002/07/owl#Class"
owlNamedIndividual  == "http://www.w3.org/2002/07/owl#NamedIndividual"
owlObjectProperty   == "http://www.w3.org/2002/07/owl#ObjectProperty"
owlDatatypeProperty == "http://www.w3.org/2002/07/owl#DatatypeProperty"
rdfsSubClassOf      == "http://www.w3.org/2000/01/rdf-schema#subClassOf"
rdfsComment         == "http://www.w3.org/2000/01/rdf-schema#comment"
rdfsLabel           == "http://www.w3.org/2000/01/rdf-schema#label"
rdfsRange           == "http://www.w3.org/2000/01/rdf-schema#range"
shaclNodeShape      == "http://www.w3.org/ns/shacl#NodeShape"
shaclProperty       == "http://www.w3.org/ns/shacl#property"
shaclPath           == "http://www.w3.org/ns/shacl#path"
shaclDatatype       == "http://www.w3.org/ns/shacl#datatype"
shaclClass          == "http://www.w3.org/ns/shacl#class"
shaclMinCount       == "http://www.w3.org/ns/shacl#minCount"
shaclMaxCount       == "http://www.w3.org/ns/shacl#maxCount"
shaclNodeKind       == "http://www.w3.org/ns/shacl#nodeKind"
shaclIn             == "http://www.w3.org/ns/shacl#in"
shaclMessage        == "http://www.w3.org/ns/shacl#message"
spdxBaseURI         == "https://spdx.org/rdf/3.0.1/terms/"

(***************************************************************************)
(* JSON values.  An object is a function from its keys to JSON values.     *)
(***************************************************************************)
JNull       == [t |-> "null"]
JStr(s)     == [t |-> "string", s |-> s]
JNum(n)     == [t |-> "number", n |-> n]
JArr(items) == [t |-> "array", items |-> items]
JObj(f)     == [t |-> "object", f |-> f]
NoKeys      == <<>>

Nil == [nil |-> TRUE]

(***************************************************************************)
(* Go strings package.                                                     *)
(***************************************************************************)
CharAt(s, i) == SubSeq(s, i, i)

HasPrefix(s, p) == Len(s) >= Len(p) /\ SubSeq(s, 1, Len(p)) = p

TrimPrefix(s, p) == IF HasPrefix(s, p) THEN SubSeq(s, Len(p) + 1, Len(s)) ELSE s

\* strings.Index / strings.LastIndex for a one-character separator:
\* the 0-based position of the first / last occurrence, -1 when there is none
Index(s, c) ==
    LET hits == {i \in 1..Len(s) : CharAt(s, i) = c}
    IN  IF hits = {} THEN -1
        ELSE (CHOOSE i \in hits : \A j \in hits : i <= j) - 1

LastIndex(s, c) ==
    LET hits == {i \in 1..Len(s) : CharAt(s, i) = c}
    IN  IF hits = {} THEN -1
        ELSE (CHOOSE i \in hits : \A j \in hits : i >= j) - 1

\* s[idx:] of Go, idx 0-based
SliceFrom(s, idx) == SubSeq(s, idx + 1, Len(s))

\* s[:idx] of Go, idx 0-based
SliceTo(s, idx) == SubSeq(s, 1, idx)

Contains(s, sub) ==
    \E i \in 1..(Len(s) - Len(sub) + 1) : SubSeq(s, i, i + Len(sub) - 1) = sub

UpperLetters == "ABCDEFGHIJKLMNOPQRSTUVWXYZ"
LowerLetters == "abcdefghijklmnopqrstuvwxyz"

LowerChar(c) ==
    IF \E i \in 1..Len(UpperLetters) : CharAt(UpperLetters, i) = c
    THEN CharAt(LowerLetters, CHOOSE i \in 1..Len(UpperLetters) : CharAt(UpperLetters, i) = c)
    ELSE c

ToLower(s) ==
    LET F[i \in 0..Len(s)] == IF i = 0 THEN "" ELSE F[i - 1] \o LowerChar(CharAt(s, i))
    IN  F[Len(s)]

(***************************************************************************)
(* encoding/json.Unmarshal into the targets parser.go uses.  Each returns  *)
(* [err, v]: err is whether Unmarshal reports an error, v the target after *)
(* the call.  A JSON null leaves the target at its zero value and is no    *)
(* error; a key the object lacks leaves its field at the zero value.       *)
(***************************************************************************)
\* var s string
UnmarshalString(raw) ==
    CASE raw.t = "string" -> [err |-> FALSE, v |-> raw.s]
      [] raw.t = "null"   -> [err |-> FALSE, v |-> ""]
      [] OTHER            -> [err |-> TRUE,  v |-> ""]

\* var n int
UnmarshalInt(raw) ==
    CASE raw.t = "number" -> [err |-> FALSE, v |-> raw.n]
      [] raw.t = "null"   -> [err |-> FALSE, v |-> 0]
      [] OTHER            -> [err |-> TRUE,  v |-> 0]

\* var types []string
UnmarshalStrings(raw) ==
    CASE raw.t = "array" ->
            [err |-> \E i \in 1..Len(raw.items) : UnmarshalString(raw.items[i]).err,
             v   |-> [i \in 1..Len(raw.items) |-> UnmarshalString(raw.items[i]).v]]
      [] raw.t = "null"  -> [err |-> FALSE, v |-> <<>>]
      [] OTHER           -> [err |-> TRUE,  v |-> <<>>]

\* var arr []json.RawMessage
UnmarshalRawArray(raw) ==
    CASE raw.t = "array" -> [err |-> FALSE, v |-> raw.items]
      [] raw.t = "null"  -> [err |-> FALSE, v |-> <<>>]
      [] OTHER           -> [err |-> TRUE,  v |-> <<>>]

\* what a struct field tagged with `key` is decoded from: the value under
\* the key, and for an object without the key nothing, which like a null
\* leaves the field at its zero value
Field(raw, key) == IF key \in DOMAIN raw.f THEN raw.f[key] ELSE JNull

\* a reference decoder that also takes a bare string for the IRI
UnmarshalRefLenient(raw) ==
    CASE raw.t = "object" -> UnmarshalString(Field(raw, "@id"))
      [] raw.t = "string" -> [err |-> FALSE, v |-> raw.s]
      [] raw.t = "null"   -> [err |-> FALSE, v |-> ""]
      [] OTHER            -> [err |-> TRUE,  v |-> ""]

\* var ref struct { ID string `json:"@id"` }
UnmarshalRef(raw) ==
    CASE raw.t = "object" -> UnmarshalString(Field(raw, "@id"))
      [] raw.t = "null"   -> [err |-> FALSE, v |-> ""]
      [] OTHER            -> [err |-> TRUE,  v |-> ""]

\* var val struct { Value int `json:"@value"` }
UnmarshalIntValue(raw) ==
    CASE raw.t = "object" -> UnmarshalInt(Field(raw, "@value"))
      [] raw.t = "null"   -> [err |-> FALSE, v |-> 0]
      [] OTHER            -> [err |-> TRUE,  v |-> 0]

\* var msg struct { Value string `json:"@value"` }
UnmarshalStringValue(raw) ==
    CASE raw.t = "object" -> UnmarshalString(Field(raw, "@value"))
      [] raw.t = "null"   -> [err |-> FALSE, v |-> ""]
      [] OTHER            -> [err |-> TRUE,  v |-> ""]

\* var comment struct { Value string `json:"@value"`; Language string `json:"@language"` }
UnmarshalComment(raw) ==
    CASE raw.t = "object" ->
            [err |-> UnmarshalString(Field(raw, "@value")).err
                     \/ UnmarshalString(Field(raw, "@language")).err,
             v   |-> UnmarshalString(Field(raw, "@value")).v]
      [] raw.t = "null"   -> [err |-> FALSE, v |-> ""]
      [] OTHER            -> [err |-> TRUE,  v |-> ""]

\* var list struct { List []struct { ID string `json:"@id"` } `json:"@list"` }
UnmarshalRefs(raw) ==
    CASE raw.t = "array" ->
            [err |-> \E i \in 1..Len(raw.items) : UnmarshalRef(raw.items[i]).err,
             v   |-> [i \in 1..Len(raw.items) |-> UnmarshalRef(raw.items[i]).v]]
      [] raw.t = "null"  -> [err |-> FALSE, v |-> <<>>]
      [] OTHER           -> [err |-> TRUE,  v |-> <<>>]

UnmarshalList(raw) ==
    CASE raw.t = "object" -> UnmarshalRefs(Field(raw, "@list"))
      [] raw.t = "null"   -> [err |-> FALSE, v |-> <<>>]
      [] OTHER            -> [err |-> TRUE,  v |-> <<>>]

\* var nodes []RDFNode, RDFNode being map[string]json.RawMessage: the target
\* holds, per array element, the key map of the object (no keys for a null)
UnmarshalNode(raw) ==
    CASE raw.t = "object" -> [err |-> FALSE, v |-> raw.f]
      [] raw.t = "null"   -> [err |-> FALSE, v |-> NoKeys]
      [] OTHER            -> [err |-> TRUE,  v |-> NoKeys]

UnmarshalNodes(raw) ==
    CASE raw.t = "array" ->
            [err |-> \E i \in 1..Len(raw.items) : UnmarshalNode(raw.items[i]).err,
             v   |-> [i \in 1..Len(raw.items) |-> UnmarshalNode(raw.items[i]).v]]
      [] raw.t = "null"  -> [err |-> FALSE, v |-> <<>>]
      [] OTHER           -> [err |-> TRUE,  v |-> <<>>]

(***************************************************************************)
(* Go maps.                                                                *)
(***************************************************************************)
EmptyMap == <<>>

MapPut(m, k, v) == [x \in (DOMAIN m) \cup {k} |-> IF x = k THEN v ELSE m[x]]

(***************************************************************************)
(* Helpers of Parser.                                                      *)
(***************************************************************************)
getString(node, key) ==
    IF key \notin DOMAIN node THEN ""
    ELSE IF UnmarshalString(node[key]).err THEN ""
    ELSE UnmarshalString(node[key]).v

getTypes(node) ==
    IF "@type" \notin DOMAIN node THEN <<>>
    ELSE IF UnmarshalStrings(node["@type"]).err
         THEN \* Try single value
              IF ~UnmarshalString(node["@type"]).err
              THEN <<UnmarshalString(node["@type"]).v>>
              ELSE <<>>
         ELSE UnmarshalStrings(node["@type"]).v

getArray(node, key) ==
    IF key \notin DOMAIN node THEN <<>>
    ELSE IF UnmarshalRawArray(node[key]).err THEN <<>>
    ELSE UnmarshalRawArray(node[key]).v

getComment(node) ==
    LET comments == getArray(node, rdfsComment)
    IN  IF Len(comments) = 0 THEN ""
        ELSE IF UnmarshalComment(comments[1]).err THEN ""
        ELSE UnmarshalComment(comments[1]).v

getLabel(node) ==
    LET labels == getArray(node, rdfsLabel)
    IN  IF Len(labels) = 0 THEN ""
        ELSE IF UnmarshalStringValue(labels[1]).err THEN ""
        ELSE UnmarshalStringValue(labels[1]).v

containsType(types, target) == \E i \in 1..Len(types) : types[i] = target

\* extractName extracts the local name from an IRI.
extractName(iri) ==
    IF LastIndex(iri, "/") >= 0 THEN SliceFrom(iri, LastIndex(iri, "/") + 1)
    ELSE IF LastIndex(iri, "#") >= 0 THEN SliceFrom(iri, LastIndex(iri, "#") + 1)
    ELSE iri

\* (variant for C13: the text up to the last '/' after the base URI)
extractNamespaceLastSlash(iri) ==
    IF ~HasPrefix(iri, spdxBaseURI) THEN ""
    ELSE LET rest == TrimPrefix(iri, spdxBaseURI)
         IN  IF LastIndex(rest, "/") >= 0 THEN SliceTo(rest, LastIndex(rest, "/")) ELSE rest

\* extractNamespace without the test for the base URI
extractNamespaceAnyBase(iri) ==
    LET rest == TrimPrefix(iri, spdxBaseURI)
    IN  IF Index(rest, "/") >= 0 THEN SliceTo(rest, Index(rest, "/")) ELSE rest

\* extractNamespace extracts the namespace from an SPDX IRI.
extractNamespace(iri) ==
    IF ~HasPrefix(iri, spdxBaseURI) THEN ""
    ELSE LET rest == TrimPrefix(iri, spdxBaseURI)
         IN  IF Index(rest, "/") >= 0 THEN SliceTo(rest, Index(rest, "/")) ELSE rest

\* extractEnumValueName extracts the enum value name from an IRI.
extractEnumValueName(iri) ==
    IF LastIndex(iri, "/") >= 0 THEN SliceFrom(iri, LastIndex(iri, "/") + 1) ELSE iri

\* (variant for C18: the last statement is honored, not the first)
LastRef(node, key, old) ==
    LET arr == getArray(node, key)
    IN  IF Len(arr) > 0 /\ ~UnmarshalRef(arr[Len(arr)]).err
        THEN UnmarshalRef(arr[Len(arr)]).v ELSE old

\* the pattern `arr := p.getArray(node, key); if len(arr) > 0 { if err :=
\* json.Unmarshal(arr[0], &ref); err == nil { field = ref.ID } }`
FirstRef(node, key, old) ==
    LET arr == getArray(node, key)
    IN  IF Len(arr) > 0 /\ ~UnmarshalRef(arr[1]).err THEN UnmarshalRef(arr[1]).v ELSE old

\* the same pattern with `val.Value` of an integer literal
FirstInt(node, key, old) ==
    LET arr == getArray(node, key)
    IN  IF Len(arr) > 0 /\ ~UnmarshalIntValue(arr[1]).err
        THEN UnmarshalIntValue(arr[1]).v ELSE old

\* parseClass with the local name stored as the ID
parseClassNameAsID(id, node) ==
    [ID         |-> extractName(id),
     Name       |-> extractName(id),
     Comment    |-> getComment(node),
     Namespace  |-> extractNamespace(id),
     Properties |-> <<>>,
     Parent     |-> FirstRef(node, rdfsSubClassOf, ""),
     NodeKind   |-> FirstRef(node, shaclNodeKind, ""),
     IsAbstract |-> FALSE]

parseClass(id, node) ==
    [ID         |-> id,
     Name       |-> extractName(id),
     Comment    |-> getComment(node),
     Namespace  |-> extractNamespace(id),
     Properties |-> <<>>,
     Parent     |-> FirstRef(node, rdfsSubClassOf, ""),
     NodeKind   |-> FirstRef(node, shaclNodeKind, ""),
     IsAbstract |-> FALSE]

parseProperty(id, node, isObject) ==
    [ID        |-> id,
     Name      |-> extractName(id),
     Comment   |-> getComment(node),
     IsObject  |-> isObject,
     Namespace |-> extractNamespace(id),
     Range     |-> FirstRef(node, rdfsRange, "")]

\* pr.Path and pr.Name are set together from the first path statement
RefPath(node) == FirstRef(node, shaclPath, "")

RefName(node) ==
    LET arr == getArray(node, shaclPath)
    IN  IF Len(arr) > 0 /\ ~UnmarshalRef(arr[1]).err
        THEN extractName(UnmarshalRef(arr[1]).v) ELSE ""

RefInValues(node) ==
    LET arr == getArray(node, shaclIn)
    IN  IF Len(arr) > 0 /\ ~UnmarshalList(arr[1]).err THEN UnmarshalList(arr[1]).v ELSE <<>>

\* parsePropertyRef with 0 as the default of MaxCount
parsePropertyRefZeroMax(node) ==
    [Path     |-> RefPath(node),
     Name     |-> RefName(node),
     DataType |-> FirstRef(node, shaclDatatype, ""),
     ClassRef |-> FirstRef(node, shaclClass, ""),
     MinCount |-> FirstInt(node, shaclMinCount, 0),
     MaxCount |-> FirstInt(node, shaclMaxCount, 0),
     NodeKind |-> FirstRef(node, shaclNodeKind, ""),
     InValues |-> RefInValues(node)]

parsePropertyRef(node) ==
    [Path     |-> RefPath(node),
     Name     |-> RefName(node),
     DataType |-> FirstRef(node, shaclDatatype, ""),
     ClassRef |-> FirstRef(node, shaclClass, ""),
     MinCount |-> FirstInt(node, shaclMinCount, 0),
     MaxCount |-> FirstInt(node, shaclMaxCount, -1),
     NodeKind |-> FirstRef(node, shaclNodeKind, ""),
     InValues |-> RefInValues(node)]

\* isAbstractMarker without strings.ToLower
isAbstractMarkerExactCase(node) ==
    LET msgArr == getArray(node, shaclMessage)
    IN  /\ Len(msgArr) > 0
        /\ ~UnmarshalStringValue(msgArr[1]).err
        /\ Contains(UnmarshalStringValue(msgArr[1]).v, "abstract")

isAbstractMarker(node) ==
    LET msgArr == getArray(node, shaclMessage)
    IN  /\ Len(msgArr) > 0
        /\ ~UnmarshalStringValue(msgArr[1]).err
        /\ Contains(ToLower(UnmarshalStringValue(msgArr[1]).v), "abstract")

\* NewModel creates a new empty Model.
NewModel ==
    [SpecVersion |-> "", Classes |-> EmptyMap, Properties |-> EmptyMap, Enums |-> EmptyMap]

(***************************************************************************)
(* ParseFile, lines 78-89: index all nodes by their @id, in array order.   *)
(***************************************************************************)
\* (variant for C16: a blank node is stored in both indices)
IndexAllBlankInBoth(arr, n0, b0) ==
    LET F[i \in 0..Len(arr)] ==
            IF i = 0 THEN [nodes |-> n0, blankNodes |-> b0]
            ELSE LET id == getString(arr[i], "@id")
                 IN  IF id = "" THEN F[i - 1]
                     ELSE IF HasPrefix(id, "_:")
                          THEN [nodes      |-> MapPut(F[i - 1].nodes, id, arr[i]),
                                blankNodes |-> MapPut(F[i - 1].blankNodes, id, arr[i])]
                          ELSE [F[i - 1] EXCEPT !.nodes = MapPut(@, id, arr[i])]
    IN  F[Len(arr)]

\* (variant for C15: a node with an empty id is indexed like any other)
IndexAllKeepEmpty(arr, n0, b0) ==
    LET F[i \in 0..Len(arr)] ==
            IF i = 0 THEN [nodes |-> n0, blankNodes |-> b0]
            ELSE LET id == getString(arr[i], "@id")
                 IN  IF HasPrefix(id, "_:")
                     THEN [F[i - 1] EXCEPT !.blankNodes = MapPut(@, id, arr[i])]
                     ELSE [F[i - 1] EXCEPT !.nodes = MapPut(@, id, arr[i])]
    IN  F[Len(arr)]

\* (variant for C27: the first node under an id keeps its place)
IndexAllKeepFirst(arr, n0, b0) ==
    LET F[i \in 0..Len(arr)] ==
            IF i = 0 THEN [nodes |-> n0, blankNodes |-> b0]
            ELSE LET id == getString(arr[i], "@id")
                 IN  IF id = "" THEN F[i - 1]
                     ELSE IF HasPrefix(id, "_:")
                          THEN IF id \in DOMAIN F[i - 1].blankNodes THEN F[i - 1]
                               ELSE [F[i - 1] EXCEPT !.blankNodes = MapPut(@, id, arr[i])]
                          ELSE IF id \in DOMAIN F[i - 1].nodes THEN F[i - 1]
                               ELSE [F[i - 1] EXCEPT !.nodes = MapPut(@, id, arr[i])]
    IN  F[Len(arr)]

\* the two maps after the loop has visited the first i elements of arr
IndexAll(arr, n0, b0) ==
    LET F[i \in 0..Len(arr)] ==
            IF i = 0 THEN [nodes |-> n0, blankNodes |-> b0]
            ELSE LET id == getString(arr[i], "@id")
                 IN  IF id = "" THEN F[i - 1]
                     ELSE IF HasPrefix(id, "_:")
                          THEN [F[i - 1] EXCEPT !.blankNodes = MapPut(@, id, arr[i])]
                          ELSE [F[i - 1] EXCEPT !.nodes = MapPut(@, id, arr[i])]
    IN  F[Len(arr)]

(***************************************************************************)
(* ParseFile, lines 94-117: the body of the first range loop.              *)
(***************************************************************************)
\* (variant for C17: the first matching predicate consumes the node)
ClassPassExclusive(m, id, node) ==
    LET types == getTypes(node)
    IN  IF containsType(types, owlClass)
        THEN [m EXCEPT !.Classes = MapPut(@, id, parseClass(id, node))]
        ELSE IF containsType(types, owlObjectProperty)
        THEN [m EXCEPT !.Properties = MapPut(@, id, parseProperty(id, node, TRUE))]
        ELSE IF containsType(types, owlDatatypeProperty)
        THEN [m EXCEPT !.Properties = MapPut(@, id, parseProperty(id, node, FALSE))]
        ELSE m

\* (variant for C26: the object classification is applied last)
ClassPassObjectLast(m, id, node) ==
    LET types == getTypes(node)
        m1 == IF containsType(types, owlClass)
              THEN [m EXCEPT !.Classes = MapPut(@, id, parseClass(id, node))]
              ELSE m
        m2 == IF containsType(types, owlDatatypeProperty)
              THEN [m1 EXCEPT !.Properties = MapPut(@, id, parseProperty(id, node, FALSE))]
              ELSE m1
        m3 == IF containsType(types, owlObjectProperty)
              THEN [m2 EXCEPT !.Properties = MapPut(@, id, parseProperty(id, node, TRUE))]
              ELSE m2
    IN  m3

ClassPass(m, id, node) ==
    LET types == getTypes(node)
        m1 == IF containsType(types, owlClass)
              THEN [m EXCEPT !.Classes = MapPut(@, id, parseClass(id, node))]
              ELSE m
        m2 == IF containsType(types, owlObjectProperty)
              THEN [m1 EXCEPT !.Properties = MapPut(@, id, parseProperty(id, node, TRUE))]
              ELSE m1
        m3 == IF containsType(types, owlDatatypeProperty)
              THEN [m2 EXCEPT !.Properties = MapPut(@, id, parseProperty(id, node, FALSE))]
              ELSE m2
    IN  m3

(***************************************************************************)
(* ParseFile, lines 120-160: the body of the second range loop.            *)
(***************************************************************************)
\* line 126: the type names a candidate enum
IsCandidate(t) == HasPrefix(t, spdxBaseURI) /\ t # owlNamedIndividual

\* the disambiguation rule left out: no candidate is ever rejected
IsRejectedNever(m, enumID) == FALSE

\* (variant for C28: no class is treated as an enum)
IsRejectedAnyClass(m, enumID) ==
    /\ enumID \notin DOMAIN m.Enums
    /\ enumID \in DOMAIN m.Classes

\* lines 129-135: don't treat a class with a parent as an enum
IsRejected(m, enumID) ==
    /\ enumID \notin DOMAIN m.Enums
    /\ enumID \in DOMAIN m.Classes
    /\ m.Classes[enumID].Parent # ""

\* lines 137-147: create the enum if it doesn't exist
NewEnum(idx, enumID) ==
    [ID        |-> enumID,
     Name      |-> extractName(enumID),
     Namespace |-> extractNamespace(enumID),
     Values    |-> <<>>,
     Comment   |-> IF enumID \in DOMAIN idx THEN getComment(idx[enumID]) ELSE ""]

\* lines 150-155
NewEnumValue(id, node) ==
    [ID      |-> id,
     Name    |-> extractEnumValueName(id),
     Label   |-> getLabel(node),
     Comment |-> getComment(node)]

\* AddEnumValue that stores the new value in place of the values so far
AddEnumValueOverwrite(m, idx, enumID, id, node) ==
    LET enum == IF enumID \in DOMAIN m.Enums THEN m.Enums[enumID] ELSE NewEnum(idx, enumID)
    IN  [m EXCEPT !.Enums =
            MapPut(@, enumID, [enum EXCEPT !.Values = <<NewEnumValue(id, node)>>])]

\* (variant for C25: a new enum takes the comment of the individual that
\* is visited first)
AddEnumValueFirstComment(m, idx, enumID, id, node) ==
    LET enum == IF enumID \in DOMAIN m.Enums THEN m.Enums[enumID]
                ELSE [NewEnum(idx, enumID) EXCEPT !.Comment = getComment(node)]
    IN  [m EXCEPT !.Enums =
            MapPut(@, enumID, [enum EXCEPT !.Values = Append(@, NewEnumValue(id, node))])]

AddEnumValue(m, idx, enumID, id, node) ==
    LET enum == IF enumID \in DOMAIN m.Enums THEN m.Enums[enumID] ELSE NewEnum(idx, enumID)
    IN  [m EXCEPT !.Enums =
            MapPut(@, enumID, [enum EXCEPT !.Values = Append(@, NewEnumValue(id, node))])]

\* (variant for C14: the inner loop does not stop after it has added the value)
EnumPassNoBreak(m, idx, id, node) ==
    LET types == getTypes(node)
        \* the model after the inner loop has handled types[1..i]
        Done[i \in 0..Len(types)] ==
            IF i = 0 THEN m
            ELSE IF IsCandidate(types[i]) /\ ~IsRejected(Done[i - 1], types[i])
                 THEN AddEnumValue(Done[i - 1], idx, types[i], id, node)
                 ELSE Done[i - 1]
    IN  IF containsType(types, owlNamedIndividual) THEN Done[Len(types)] ELSE m

\* (variant for C24: a rejected candidate ends the inner loop)
EnumPassStopAtRejected(m, idx, id, node) ==
    LET types == getTypes(node)
        Scan[i \in 1..(Len(types) + 1)] ==
            IF i > Len(types) THEN m
            ELSE IF IsCandidate(types[i])
                 THEN IF IsRejected(m, types[i]) THEN m
                      ELSE AddEnumValue(m, idx, types[i], id, node)
                 ELSE Scan[i + 1]
    IN  IF containsType(types, owlNamedIndividual) THEN Scan[1] ELSE m

EnumPass(m, idx, id, node) ==
    LET types == getTypes(node)
        \* the model after the inner loop has run from types[i] on
        Scan[i \in 1..(Len(types) + 1)] ==
            IF i > Len(types) THEN m
            ELSE IF IsCandidate(types[i])
                 THEN IF IsRejected(m, types[i]) THEN Scan[i + 1]
                      ELSE AddEnumValue(m, idx, types[i], id, node)
                 ELSE Scan[i + 1]
    IN  IF containsType(types, owlNamedIndividual) THEN Scan[1] ELSE m

(***************************************************************************)
(* ParseFile, lines 164-197: the body of the third range loop.  The result *)
(* is the class after the loop over the shape's property list, with the    *)
(* ids of the blank nodes whose PropertyRefs were appended.                *)
(***************************************************************************)
\* (variant for C19: the PropertyRef is put in front of the earlier ones)
ShapeStepPrepend(st, blanks, propRefRaw) ==
    IF UnmarshalRef(propRefRaw).err THEN st
    ELSE IF UnmarshalRef(propRefRaw).v \notin DOMAIN blanks THEN st
    ELSE LET bid == UnmarshalRef(propRefRaw).v
         IN  IF isAbstractMarker(blanks[bid])
             THEN [st EXCEPT !.class.IsAbstract = TRUE]
             ELSE [st EXCEPT !.class.Properties = <<parsePropertyRef(blanks[bid])>> \o @,
                             !.origin = <<bid>> \o @]

\* (variant for C29: a PropertyRef without a path is left out)
ShapeStepSkipPathless(st, blanks, propRefRaw) ==
    IF UnmarshalRef(propRefRaw).err THEN st
    ELSE IF UnmarshalRef(propRefRaw).v \notin DOMAIN blanks THEN st
    ELSE LET bid == UnmarshalRef(propRefRaw).v
         IN  IF isAbstractMarker(blanks[bid])
             THEN [st EXCEPT !.class.IsAbstract = TRUE]
             ELSE IF parsePropertyRef(blanks[bid]).Path = "" THEN st
             ELSE [st EXCEPT !.class.Properties = Append(@, parsePropertyRef(blanks[bid])),
                             !.origin = Append(@, bid)]

ShapeStep(st, blanks, propRefRaw) ==
    IF UnmarshalRef(propRefRaw).err THEN st
    ELSE IF UnmarshalRef(propRefRaw).v \notin DOMAIN blanks THEN st
    ELSE LET bid == UnmarshalRef(propRefRaw).v
         IN  IF isAbstractMarker(blanks[bid])
             THEN [st EXCEPT !.class.IsAbstract = TRUE]
             ELSE [st EXCEPT !.class.Properties = Append(@, parsePropertyRef(blanks[bid])),
                             !.origin = Append(@, bid)]

ShapeLoop(class, org, blanks, propRefs) ==
    LET F[i \in 0..Len(propRefs)] ==
            IF i = 0 THEN [class |-> class, origin |-> org]
            ELSE ShapeStep(F[i - 1], blanks, propRefs[i])
    IN  F[Len(propRefs)]

IsShapeOfClass(m, id, node) ==
    containsType(getTypes(node), shaclNodeShape) /\ id \in DOMAIN m.Classes

ShapePass(m, org, blanks, id, node) ==
    IF IsShapeOfClass(m, id, node)
    THEN LET r == ShapeLoop(m.Classes[id],
                            IF id \in DOMAIN org THEN org[id] ELSE <<>>,
                            blanks, getArray(node, shaclProperty))
         IN  [model  |-> [m EXCEPT !.Classes[id] = r.class],
              origin |-> MapPut(org, id, r.origin)]
    ELSE [model |-> m, origin |-> org]

(***************************************************************************)
(* The inputs: files whose top-level array is drawn from a pool of graph   *)
(* nodes, files with another top-level value, and a file that cannot be    *)
(* read.                                                                   *)
(***************************************************************************)
Ref(id)    == JObj("@id" :> JStr(id))
IntLit(n)  == JObj("@value" :> JNum(n))
StrLit(s)  == JObj("@value" :> JStr(s))
LangLit(s) == JObj(("@value" :> JStr(s)) @@ ("@language" :> JStr("en")))

FooIRI   == "https://x/terms/Core/Foo"
HashIRI  == spdxBaseURI \o "Core/HashAlgorithm"
ToolIRI  == spdxBaseURI \o "Core/Tool"
AgentIRI == spdxBaseURI \o "Core/Agent"
NameIRI  == spdxBaseURI \o "Core/name"

\* a class that is its own node shape, with one property shape
NFoo ==
    JObj(("@id" :> JStr(FooIRI))
         @@ ("@type" :> JArr(<<JStr(owlClass), JStr(shaclNodeShape)>>))
         @@ (shaclProperty :> JArr(<<Ref("_:b0")>>)))

NBar ==
    JObj(("@id" :> JStr("_:b0"))
         @@ (shaclPath :> JArr(<<Ref(FooIRI \o "/bar")>>))
         @@ (shaclDatatype :> JArr(<<Ref("xsd:string")>>)))

\* two members of the enumeration HashAlgorithm
NSha1 ==
    JObj(("@id" :> JStr(HashIRI \o "/sha1"))
         @@ ("@type" :> JArr(<<JStr(owlNamedIndividual), JStr(HashIRI)>>))
         @@ (rdfsLabel :> JArr(<<StrLit("sha1")>>)))

NSha256 ==
    JObj(("@id" :> JStr(HashIRI \o "/sha256"))
         @@ ("@type" :> JArr(<<JStr(owlNamedIndividual), JStr(HashIRI)>>))
         @@ (rdfsLabel :> JArr(<<StrLit("sha256")>>)))

\* a class with a parent that is its own node shape; its node kind is not an
\* object and one entry of its property list names no node of the pool
NTool ==
    JObj(("@id" :> JStr(ToolIRI))
         @@ ("@type" :> JArr(<<JStr(owlClass), JStr(shaclNodeShape)>>))
         @@ (rdfsSubClassOf :> JArr(<<Ref(AgentIRI), Ref(FooIRI)>>))
         @@ (rdfsComment :> JArr(<<LangLit("A tool")>>))
         @@ (shaclNodeKind :> JArr(<<JStr("sh:IRI")>>))
         @@ (shaclProperty :> JArr(<<Ref("_:b1"), Ref("_:b2"), Ref("_:gone"), Ref("_:b0")>>)))

\* an individual whose only type under the base URI is that class
NScanner ==
    JObj(("@id" :> JStr(ToolIRI \o "/scanner"))
         @@ ("@type" :> JArr(<<JStr(owlNamedIndividual), JStr(ToolIRI)>>)))

\* an abstract-class marker
NMarker ==
    JObj(("@id" :> JStr("_:b1"))
         @@ (shaclPath :> JArr(<<Ref(ToolIRI \o "/marker")>>))
         @@ (shaclMessage :> JArr(<<StrLit("Tool is an Abstract class")>>)))

\* a property shape with explicit counts and a message that marks nothing
NOne ==
    JObj(("@id" :> JStr("_:b2"))
         @@ (shaclPath :> JArr(<<Ref(NameIRI)>>))
         @@ (shaclClass :> JArr(<<Ref(AgentIRI)>>))
         @@ (shaclMinCount :> JArr(<<IntLit(1)>>))
         @@ (shaclMaxCount :> JArr(<<IntLit(1)>>))
         @@ (shaclMessage :> JArr(<<StrLit("exactly one name")>>)))

\* a property shape with a negative maximum, a minimum that is no number and
\* a datatype that is not an object
NNeg ==
    JObj(("@id" :> JStr("_:b0"))
         @@ (shaclPath :> JArr(<<Ref(NameIRI)>>))
         @@ (shaclDatatype :> JArr(<<JStr("xsd:string")>>))
         @@ (shaclMinCount :> JArr(<<StrLit("one")>>))
         @@ (shaclMaxCount :> JArr(<<IntLit(-2)>>)))

\* a datatype property whose type is a single string
NName ==
    JObj(("@id" :> JStr(NameIRI))
         @@ ("@type" :> JStr(owlDatatypeProperty))
         @@ (rdfsRange :> JArr(<<Ref("xsd:string")>>))
         @@ (rdfsComment :> JArr(<<LangLit("A name")>>)))

Pool == <<NFoo, NBar, NSha1, NSha256, NTool, NScanner, NMarker, NOne, NNeg, NName,
          JNull, JNum(5)>>

\* top-level values that are no array: an object, a string, a number, a
\* null, and bytes that are no JSON at all
OtherTops == <<JObj(NoKeys), JStr("x"), JNum(1), JNull, [t |-> "malformed"]>>

ArrayOf(ix) == JArr([j \in 1..Len(ix) |-> pool[ix[j]]])

File(readable, data) == [readable |-> readable, data |-> data]

Size(file) == IF file.data.t = "array" THEN Len(file.data.items) ELSE 0

\* the files a call may be given when k more array elements fit the bound
Files(k) ==
    {File(FALSE, JNull)}
    \cup {File(TRUE, OtherTops[i]) : i \in 1..Len(OtherTops)}
    \cup {File(TRUE, ArrayOf(ix)) : ix \in UNION {[1..n -> 1..Len(pool)] : n \in 0..k}}

\* os.ReadFile
ReadFile(file) == [err |-> ~file.readable, v |-> file.data]

(***************************************************************************)
(* The state machine: NewParser, then ParseFile calls, one after another.  *)
(***************************************************************************)
Init ==
    /\ nodes = EmptyMap
    /\ blankNodes = EmptyMap
    /\ input = File(FALSE, JNull)
    /\ model = Nil
    /\ origin = EmptyMap
    /\ ret = Nil
    /\ pc = "idle"
    /\ todo = {}
    /\ calls = 0
    /\ fed = 0
    /\ pool = Pool
    /\ givenIRI = ""
    /\ derived = Nil
    /\ cmd = Nil
    /\ reader = Nil
    /\ norm = Nil

CanCall == pc \in {"idle", "done"} /\ calls < MaxCalls

\* lines 68-71: the file cannot be read
ReadError ==
    /\ CanCall
    /\ \E file \in Files(MaxNodes - fed) :
        /\ ReadFile(file).err
        /\ input' = file
        /\ fed' = fed + Size(file)
    /\ calls' = calls + 1
    /\ model' = Nil
    /\ ret' = [model |-> Nil, err |-> "read file"]
    /\ pc' = "done"
    /\ UNCHANGED <<nodes, blankNodes, origin, todo, notParser>>

\* lines 73-76: the bytes are no array of objects
UnmarshalError ==
    /\ CanCall
    /\ \E file \in Files(MaxNodes - fed) :
        /\ ~ReadFile(file).err
        /\ UnmarshalNodes(ReadFile(file).v).err
        /\ input' = file
        /\ fed' = fed + Size(file)
    /\ calls' = calls + 1
    /\ model' = Nil
    /\ ret' = [model |-> Nil, err |-> "unmarshal JSON-LD"]
    /\ pc' = "done"
    /\ UNCHANGED <<nodes, blankNodes, origin, todo, notParser>>

\* lines 78-91: index the nodes, start the model and the first loop
IndexNodes ==
    /\ CanCall
    /\ \E file \in Files(MaxNodes - fed) :
        /\ ~ReadFile(file).err
        /\ ~UnmarshalNodes(ReadFile(file).v).err
        /\ input' = file
        /\ fed' = fed + Size(file)
        /\ LET ix == IndexAll(UnmarshalNodes(ReadFile(file).v).v, nodes, blankNodes)
           IN  /\ nodes' = ix.nodes
               /\ blankNodes' = ix.blankNodes
               /\ todo' = DOMAIN ix.nodes
    /\ calls' = calls + 1
    /\ model' = NewModel
    /\ origin' = EmptyMap
    /\ ret' = Nil
    /\ pc' = "pass1"
    /\ UNCHANGED notParser

\* lines 94-117, one iteration
FirstPass ==
    /\ pc = "pass1"
    /\ \E id \in todo :
        /\ model' = ClassPass(model, id, nodes[id])
        /\ todo' = todo \ {id}
    /\ UNCHANGED <<nodes, blankNodes, input, origin, ret, pc, calls, fed, notParser>>

\* (variant for C11: the second loop starts while the first still has nodes)
FirstPassDoneEarly ==
    /\ pc = "pass1"
    /\ pc' = "pass2"
    /\ todo' = DOMAIN nodes
    /\ UNCHANGED <<nodes, blankNodes, input, model, origin, ret, calls, fed, notParser>>

\* lines 117-120: the first loop has ended, the second starts
FirstPassDone ==
    /\ pc = "pass1"
    /\ todo = {}
    /\ pc' = "pass2"
    /\ todo' = DOMAIN nodes
    /\ UNCHANGED <<nodes, blankNodes, input, model, origin, ret, calls, fed, notParser>>

\* lines 120-161, one iteration
SecondPass ==
    /\ pc = "pass2"
    /\ \E id \in todo :
        /\ model' = EnumPass(model, nodes, id, nodes[id])
        /\ todo' = todo \ {id}
    /\ UNCHANGED <<nodes, blankNodes, input, origin, ret, pc, calls, fed, notParser>>

SecondPassDone ==
    /\ pc = "pass2"
    /\ todo = {}
    /\ pc' = "pass3"
    /\ todo' = DOMAIN nodes
    /\ UNCHANGED <<nodes, blankNodes, input, model, origin, ret, calls, fed, notParser>>

\* lines 164-198, one iteration
ThirdPass ==
    /\ pc = "pass3"
    /\ \E id \in todo :
        /\ model' = ShapePass(model, origin, blankNodes, id, nodes[id]).model
        /\ origin' = ShapePass(model, origin, blankNodes, id, nodes[id]).origin
        /\ todo' = todo \ {id}
    /\ UNCHANGED <<nodes, blankNodes, input, ret, pc, calls, fed, notParser>>

\* line 200
Return ==
    /\ pc = "pass3"
    /\ todo = {}
    /\ ret' = [model |-> model, err |-> ""]
    /\ pc' = "done"
    /\ UNCHANGED <<nodes, blankNodes, input, model, origin, todo, calls, fed, notParser>>

Next ==
    \/ ReadError
    \/ UnmarshalError
    \/ IndexNodes
    \/ FirstPass
    \/ FirstPassDone
    \/ SecondPass
    \/ SecondPassDone
    \/ ThirdPass
    \/ Return

Spec == Init /\ [][Next]_vars

(***************************************************************************)
(* What a finished call returned.                                          *)
(***************************************************************************)
Succeeded == pc = "done" /\ ret.err = ""
Failed    == pc = "done" /\ ret.err # ""

\* the keys of the returned Model's maps
ClassKeys == DOMAIN ret.model.Classes
PropKeys  == DOMAIN ret.model.Properties
EnumKeys  == DOMAIN ret.model.Enums

\* the positions of the property list of class X in the returned Model
RefsOf(X) == 1..Len(ret.model.Classes[X].Properties)

(***************************************************************************)
(* C1: in every returned Model, every key of Classes, Properties and Enums *)
(* is the ID of the value stored under it.                                 *)
(***************************************************************************)
C1_KeysAreIDs ==
    Succeeded =>
        /\ \A k \in ClassKeys : ret.model.Classes[k].ID = k
        /\ \A k \in PropKeys  : ret.model.Properties[k].ID = k
        /\ \A k \in EnumKeys  : ret.model.Enums[k].ID = k

\* a returned Model that holds a class, a property and an enum
C1_Witness ==
    /\ Succeeded
    /\ FooIRI \in ClassKeys
    /\ NameIRI \in PropKeys
    /\ HashIRI \in EnumKeys

(***************************************************************************)
(* The Model a newly created Parser returns for a file: the three loops    *)
(* run to their end over indices built from that file alone, the keys of   *)
(* each loop taken in one fixed order.                                     *)
(***************************************************************************)
OrderOf(S) == CHOOSE q \in [1..Cardinality(S) -> S] : \A k \in S : \E i \in DOMAIN q : q[i] = k

FreshModel(file) ==
    LET ix  == IndexAll(UnmarshalNodes(ReadFile(file).v).v, EmptyMap, EmptyMap)
        ord == OrderOf(DOMAIN ix.nodes)
        n   == Len(ord)
        P1[i \in 0..n] ==
            IF i = 0 THEN NewModel ELSE ClassPass(P1[i - 1], ord[i], ix.nodes[ord[i]])
        P2[i \in 0..n] ==
            IF i = 0 THEN P1[n] ELSE EnumPass(P2[i - 1], ix.nodes, ord[i], ix.nodes[ord[i]])
        P3[i \in 0..n] ==
            IF i = 0 THEN [model |-> P2[n], origin |-> EmptyMap]
            ELSE ShapePass(P3[i - 1].model, P3[i - 1].origin, ix.blankNodes,
                           ord[i], ix.nodes[ord[i]])
    IN  P3[n].model

ValueSet(enum) == {enum.Values[i] : i \in 1..Len(enum.Values)}

\* equal Models, the values of an enum compared without their order
SameModel(a, b) ==
    /\ a.Classes = b.Classes
    /\ a.Properties = b.Properties
    /\ DOMAIN a.Enums = DOMAIN b.Enums
    /\ \A k \in DOMAIN a.Enums :
        /\ [a.Enums[k] EXCEPT !.Values = <<>>] = [b.Enums[k] EXCEPT !.Values = <<>>]
        /\ Len(a.Enums[k].Values) = Len(b.Enums[k].Values)
        /\ ValueSet(a.Enums[k]) = ValueSet(b.Enums[k])

(***************************************************************************)
(* C2: the Model a call returns is the Model a newly created Parser        *)
(* returns for the same file, also when the Parser has parsed another file *)
(* before.                                                                 *)
(***************************************************************************)
C2_EqualsFreshParser == Succeeded => SameModel(ret.model, FreshModel(input))

(***************************************************************************)
(* C3: in every returned Model no IRI is a key of Enums and also a key of  *)
(* Classes whose class has a Parent; an individual whose only type under   *)
(* the base URI is such a class is a value of no enum, and no enum is made *)
(* for that type.                                                          *)
(***************************************************************************)
IsClassWithParent(k) == k \in ClassKeys /\ ret.model.Classes[k].Parent # ""

\* the types of an indexed node that lie under the base URI
BaseTypes(id) ==
    {getTypes(nodes[id])[i] : i \in {j \in 1..Len(getTypes(nodes[id])) :
                                        HasPrefix(getTypes(nodes[id])[j], spdxBaseURI)}}

IsIndividual(id) == containsType(getTypes(nodes[id]), owlNamedIndividual)

IsValueOfSomeEnum(id) ==
    \E k \in EnumKeys : \E i \in 1..Len(ret.model.Enums[k].Values) :
        ret.model.Enums[k].Values[i].ID = id

\* C3: no enum key is a class with a parent, and an individual typed only
\* with such a class is a value of no enum
C3_NoEnumForSubclass ==
    Succeeded =>
        /\ \A k \in EnumKeys : ~IsClassWithParent(k)
        /\ \A id \in DOMAIN nodes :
              (IsIndividual(id) /\ \E t \in BaseTypes(id) :
                                       BaseTypes(id) = {t} /\ IsClassWithParent(t))
              => ~IsValueOfSomeEnum(id)

\* the class Tool with its parent and the individual typed with it were parsed
C3_Witness ==
    /\ Succeeded
    /\ IsClassWithParent(ToolIRI)
    /\ (ToolIRI \o "/scanner") \in DOMAIN nodes
    /\ IsIndividual(ToolIRI \o "/scanner")
    /\ BaseTypes(ToolIRI \o "/scanner") = {ToolIRI}

(***************************************************************************)
(* C4: for a class that is also a node shape, an entry of its property     *)
(* list that resolves to a blank node whose message holds "abstract" in    *)
(* any letter case makes the class abstract and adds nothing to its        *)
(* Properties.  The message of a node is its first message literal.        *)
(***************************************************************************)
\* the letters of a and b agree up to their case
SameLetter(a, b) ==
    \/ a = b
    \/ \E i \in 1..Len(UpperLetters) :
          /\ a \in {CharAt(UpperLetters, i), CharAt(LowerLetters, i)}
          /\ b \in {CharAt(UpperLetters, i), CharAt(LowerLetters, i)}

HoldsAnyCase(s, word) ==
    \E i \in 1..(Len(s) - Len(word) + 1) :
        \A j \in 1..Len(word) : SameLetter(CharAt(s, i + j - 1), CharAt(word, j))

\* the text of the first message literal of a node, "" when it has none
MessageText(node) ==
    IF /\ shaclMessage \in DOMAIN node
       /\ node[shaclMessage].t = "array"
       /\ Len(node[shaclMessage].items) > 0
       /\ node[shaclMessage].items[1].t = "object"
       /\ "@value" \in DOMAIN node[shaclMessage].items[1].f
       /\ node[shaclMessage].items[1].f["@value"].t = "string"
    THEN node[shaclMessage].items[1].f["@value"].s
    ELSE ""

\* the ids of the indexed blank nodes the property list of shape X names
ListedBlanks(X) ==
    LET l == IF shaclProperty \in DOMAIN nodes[X] /\ nodes[X][shaclProperty].t = "array"
             THEN nodes[X][shaclProperty].items ELSE <<>>
    IN  {l[i].f["@id"].s : i \in {j \in 1..Len(l) :
            /\ l[j].t = "object"
            /\ "@id" \in DOMAIN l[j].f
            /\ l[j].f["@id"].t = "string"
            /\ l[j].f["@id"].s \in DOMAIN blankNodes}}

IsMarkerBlank(b) == HoldsAnyCase(MessageText(blankNodes[b]), "abstract")

IsShape(X) == containsType(getTypes(nodes[X]), shaclNodeShape)

\* C4: a listed marker makes its class abstract and is the origin of none of
\* the class's Properties
C4_AbstractMarker ==
    Succeeded =>
        \A X \in ClassKeys :
            IsShape(X) =>
                \A b \in ListedBlanks(X) :
                    IsMarkerBlank(b) =>
                        /\ ret.model.Classes[X].IsAbstract
                        /\ \A i \in 1..Len(origin[X]) : origin[X][i] # b

\* Tool was parsed with its marker, which is written "Abstract"
C4_Witness ==
    /\ Succeeded
    /\ ToolIRI \in ClassKeys
    /\ IsShape(ToolIRI)
    /\ "_:b1" \in ListedBlanks(ToolIRI)
    /\ IsMarkerBlank("_:b1")
    /\ ~Contains(MessageText(blankNodes["_:b1"]), "abstract")
    /\ ret.model.Classes[ToolIRI].IsAbstract

(***************************************************************************)
(* C5: every PropertyRef of every returned Model has MinCount >= 0 and     *)
(* MaxCount = -1 or MaxCount >= 0.                                         *)
(***************************************************************************)
C5_CountsInRange ==
    Succeeded =>
        \A X \in ClassKeys : \A i \in RefsOf(X) :
            /\ ret.model.Classes[X].Properties[i].MinCount >= 0
            /\ \/ ret.model.Classes[X].Properties[i].MaxCount = -1
               \/ ret.model.Classes[X].Properties[i].MaxCount >= 0

(***************************************************************************)
(* C6: a PropertyRef has MaxCount -1 when its shape has no maxCount        *)
(* literal and MaxCount n when the literal is {"@value": n}; it has        *)
(* MinCount 0 when the shape has no minCount literal and MinCount n when   *)
(* the literal is {"@value": n}.                                           *)
(***************************************************************************)
HasNoLiteral(node, key) == key \notin DOMAIN node

HasIntLiteral(node, key) ==
    /\ key \in DOMAIN node
    /\ node[key].t = "array"
    /\ Len(node[key].items) > 0
    /\ node[key].items[1].t = "object"
    /\ "@value" \in DOMAIN node[key].items[1].f
    /\ node[key].items[1].f["@value"].t = "number"

IntLiteral(node, key) == node[key].items[1].f["@value"].n

\* the blank node the i-th PropertyRef of class X was built from
ShapeOf(X, i) == blankNodes[origin[X][i]]

\* C6: MaxCount and MinCount are the explicit literal, or -1 and 0 without one
C6_CountDefaults ==
    Succeeded =>
        \A X \in ClassKeys : \A i \in RefsOf(X) :
            LET pr == ret.model.Classes[X].Properties[i]
                sh == ShapeOf(X, i)
            IN  /\ HasNoLiteral(sh, shaclMaxCount) => pr.MaxCount = -1
                /\ HasIntLiteral(sh, shaclMaxCount) => pr.MaxCount = IntLiteral(sh, shaclMaxCount)
                /\ HasNoLiteral(sh, shaclMinCount) => pr.MinCount = 0
                /\ HasIntLiteral(sh, shaclMinCount) => pr.MinCount = IntLiteral(sh, shaclMinCount)

\* one class holds a PropertyRef built from explicit literals 1 and 1 and one
\* built from a shape without count literals
C6_Witness ==
    /\ Succeeded
    /\ \E X \in ClassKeys : \E i, j \in RefsOf(X) :
        /\ HasIntLiteral(ShapeOf(X, i), shaclMaxCount)
        /\ HasIntLiteral(ShapeOf(X, i), shaclMinCount)
        /\ ret.model.Classes[X].Properties[i].MaxCount = 1
        /\ ret.model.Classes[X].Properties[i].MinCount = 1
        /\ HasNoLiteral(ShapeOf(X, j), shaclMaxCount)
        /\ HasNoLiteral(ShapeOf(X, j), shaclMinCount)
        /\ ret.model.Classes[X].Properties[j].MaxCount = -1
        /\ ret.model.Classes[X].Properties[j].MinCount = 0

(***************************************************************************)
(* C7: when the indexed graph is the class node Foo, which is its own node *)
(* shape, and the one blank node its property list names, the returned     *)
(* Model has exactly one class, named "Foo", with exactly one PropertyRef, *)
(* named "bar", of DataType "xsd:string", MinCount 0 and MaxCount -1.  The *)
(* class has the Namespace ns.                                             *)
(***************************************************************************)
FooGraphParsed ==
    /\ Succeeded
    /\ nodes = (FooIRI :> NFoo.f)
    /\ blankNodes = ("_:b0" :> NBar.f)

FooResult(ns) ==
    /\ ClassKeys = {FooIRI}
    /\ ret.model.Classes[FooIRI].Name = "Foo"
    /\ ret.model.Classes[FooIRI].Namespace = ns
    /\ Len(ret.model.Classes[FooIRI].Properties) = 1
    /\ ret.model.Classes[FooIRI].Properties[1].Name = "bar"
    /\ ret.model.Classes[FooIRI].Properties[1].DataType = "xsd:string"
    /\ ret.model.Classes[FooIRI].Properties[1].MinCount = 0
    /\ ret.model.Classes[FooIRI].Properties[1].MaxCount = -1

\* C7 as claimed: the Namespace of Foo is "Core"
C7_NamespaceCore == FooGraphParsed => FooResult("Core")

\* C7 as amended: the Namespace of Foo is empty, https://x/terms/ not being
\* the base URI
C7_EndToEnd == FooGraphParsed => FooResult("")

C7_Witness == FooGraphParsed /\ calls = 1 /\ Size(input) = 2

(***************************************************************************)
(* C8: when HashAlgorithm is no class with a parent and the individuals of *)
(* the indexed graph are exactly sha1 and sha256, both typed with it, the  *)
(* returned Model has the one enum HashAlgorithm, whose Values are two     *)
(* entries named "sha1" and "sha256", in either order.                     *)
(***************************************************************************)
Sha1IRI   == HashIRI \o "/sha1"
Sha256IRI == HashIRI \o "/sha256"

HashGraphParsed ==
    /\ Succeeded
    /\ {id \in DOMAIN nodes : IsIndividual(id)} = {Sha1IRI, Sha256IRI}
    /\ nodes[Sha1IRI] = NSha1.f
    /\ nodes[Sha256IRI] = NSha256.f
    /\ ~IsClassWithParent(HashIRI)

\* C8: the only enum is HashAlgorithm and its two values are sha1 and sha256
C8_TwoEnumValues ==
    HashGraphParsed =>
        /\ EnumKeys = {HashIRI}
        /\ Len(ret.model.Enums[HashIRI].Values) = 2
        /\ {ret.model.Enums[HashIRI].Values[i].Name : i \in 1..2} = {"sha1", "sha256"}

\* the loop met sha256 before sha1
C8_Witness ==
    /\ HashGraphParsed
    /\ ret.model.Enums[HashIRI].Values[1].Name = "sha256"
    /\ ret.model.Enums[HashIRI].Values[2].Name = "sha1"

(***************************************************************************)
(* C9: a call ends with a Model and no error or with an error and no       *)
(* Model; it ends with an error only when the file cannot be read or its   *)
(* top-level value cannot be unmarshalled; a statement that is missing or  *)
(* whose first literal cannot be parsed leaves its field at the default,   *)
(* and a property-list entry naming no indexed blank node adds nothing.    *)
(***************************************************************************)
\* top-level values json.Unmarshal stores in a []RDFNode
TopLevelFits(data) ==
    \/ data.t = "null"
    \/ data.t = "array" /\ \A i \in 1..Len(data.items) : data.items[i].t \in {"object", "null"}

\* the statement `key` of the node is missing, is no array, or its first
\* literal is no object or holds a value of another JSON type under `inner`
IsUnusable(node, key, inner, type) ==
    \/ key \notin DOMAIN node
    \/ node[key].t \notin {"array", "null"}
    \/ /\ node[key].t = "array"
       /\ Len(node[key].items) > 0
       /\ \/ node[key].items[1].t \notin {"object", "null"}
          \/ /\ node[key].items[1].t = "object"
             /\ inner \in DOMAIN node[key].items[1].f
             /\ node[key].items[1].f[inner].t \notin {type, "null"}

\* C9: Model or error, an error only for the file or its top-level value, and
\* defaults where a statement cannot be used
C9_TolerantOutcome ==
    /\ pc = "done" =>
          \/ ret.model # Nil /\ ret.err = ""
          \/ ret.model = Nil /\ ret.err # ""
    /\ Failed => ~input.readable \/ ~TopLevelFits(input.data)
    /\ Succeeded =>
          \A X \in ClassKeys :
              /\ IsUnusable(nodes[X], rdfsSubClassOf, "@id", "string")
                    => ret.model.Classes[X].Parent = ""
              /\ IsUnusable(nodes[X], shaclNodeKind, "@id", "string")
                    => ret.model.Classes[X].NodeKind = ""
              /\ \A i \in RefsOf(X) :
                    LET pr == ret.model.Classes[X].Properties[i]
                        sh == ShapeOf(X, i)
                    IN  /\ origin[X][i] \in DOMAIN blankNodes
                        /\ IsUnusable(sh, shaclPath, "@id", "string")
                              => pr.Path = "" /\ pr.Name = ""
                        /\ IsUnusable(sh, shaclDatatype, "@id", "string") => pr.DataType = ""
                        /\ IsUnusable(sh, shaclClass, "@id", "string") => pr.ClassRef = ""
                        /\ IsUnusable(sh, shaclNodeKind, "@id", "string") => pr.NodeKind = ""
                        /\ IsUnusable(sh, shaclMinCount, "@value", "number") => pr.MinCount = 0
                        /\ IsUnusable(sh, shaclMaxCount, "@value", "number") => pr.MaxCount = -1

\* Tool, whose node kind is no object and whose list names a node that is not
\* indexed, was parsed with a property shape whose datatype is no object and
\* whose minCount is no number
C9_Witness ==
    /\ Succeeded
    /\ ToolIRI \in ClassKeys
    /\ shaclNodeKind \in DOMAIN nodes[ToolIRI]
    /\ IsUnusable(nodes[ToolIRI], shaclNodeKind, "@id", "string")
    /\ "_:gone" \notin DOMAIN blankNodes
    /\ \E i \in RefsOf(ToolIRI) :
          /\ shaclDatatype \in DOMAIN ShapeOf(ToolIRI, i)
          /\ IsUnusable(ShapeOf(ToolIRI, i), shaclDatatype, "@id", "string")
          /\ shaclMinCount \in DOMAIN ShapeOf(ToolIRI, i)
          /\ IsUnusable(ShapeOf(ToolIRI, i), shaclMinCount, "@value", "number")

(***************************************************************************)
(* C10: a call on a file that cannot be read returns a read error and no   *)
(* Model, and a call on a file whose top-level value is no array of        *)
(* objects returns an unmarshal error and no Model.                        *)
(***************************************************************************)
IsArrayOfObjects(data) ==
    data.t = "array" /\ \A i \in 1..Len(data.items) : data.items[i].t = "object"

\* C10: an unreadable file gives the read error, a top-level value that is no
\* array of objects the unmarshal error, and neither gives a Model
C10_RejectsNonArrays ==
    pc = "done" =>
        /\ ~input.readable => ret = [model |-> Nil, err |-> "read file"]
        /\ (input.readable /\ ~IsArrayOfObjects(input.data))
              => ret = [model |-> Nil, err |-> "unmarshal JSON-LD"]

(***************************************************************************)
(* A second vocabulary: nodes that match several classification            *)
(* predicates at once, typed blank nodes, nodes without a usable "@id" and *)
(* a node shape that is no class.                                          *)
(***************************************************************************)
GhostIRI == spdxBaseURI \o "Core/Ghost"
ProbeIRI == ToolIRI \o "/probe"

\* an individual with three types under the base URI
NProbe ==
    JObj(("@id" :> JStr(ProbeIRI))
         @@ ("@type" :> JArr(<<JStr(owlNamedIndividual), JStr(ToolIRI),
                               JStr(HashIRI), JStr(AgentIRI)>>)))

\* a node that is class, object property, individual and node shape at once,
\* with two range statements and no subclass-of statement
NAgent ==
    JObj(("@id" :> JStr(AgentIRI))
         @@ ("@type" :> JArr(<<JStr(owlClass), JStr(owlObjectProperty),
                               JStr(owlNamedIndividual), JStr(shaclNodeShape),
                               JStr(HashIRI)>>))
         @@ (rdfsRange :> JArr(<<Ref(ToolIRI), Ref("xsd:string")>>))
         @@ (shaclProperty :> JArr(<<Ref("_:b2"), Ref("_:b0")>>)))

\* a blank node whose types carry every marker
NTyped ==
    JObj(("@id" :> JStr("_:b2"))
         @@ ("@type" :> JArr(<<JStr(owlClass), JStr(owlObjectProperty),
                               JStr(owlDatatypeProperty), JStr(owlNamedIndividual),
                               JStr(shaclNodeShape), JStr(HashIRI)>>))
         @@ (shaclPath :> JArr(<<Ref(NameIRI)>>))
         @@ (shaclMaxCount :> JArr(<<IntLit(1)>>))
         @@ (shaclProperty :> JArr(<<Ref("_:b0")>>)))

\* three nodes without a usable "@id": none, a number, the empty string
NNoId ==
    JObj(("@type" :> JArr(<<JStr(owlClass), JStr(owlNamedIndividual), JStr(HashIRI)>>))
         @@ (rdfsSubClassOf :> JArr(<<Ref(AgentIRI)>>)))

NNumId ==
    JObj(("@id" :> JNum(7))
         @@ ("@type" :> JArr(<<JStr(owlClass), JStr(shaclNodeShape)>>))
         @@ (shaclProperty :> JArr(<<Ref("_:b0")>>)))

NEmptyId ==
    JObj(("@id" :> JStr(""))
         @@ ("@type" :> JArr(<<JStr(owlDatatypeProperty), JStr(owlNamedIndividual),
                               JStr(AgentIRI)>>)))

\* a node shape (and datatype property without a range) that is no class
NGhost ==
    JObj(("@id" :> JStr(GhostIRI))
         @@ ("@type" :> JArr(<<JStr(shaclNodeShape), JStr(owlDatatypeProperty)>>))
         @@ (shaclProperty :> JArr(<<Ref("_:b0")>>)))

MixedPool == <<NTool, NProbe, NAgent, NTyped, NBar, NMarker, NNoId, NNumId,
               NEmptyId, NGhost>>

\* a new Parser whose files are written from the second vocabulary
InitMixed ==
    /\ nodes = EmptyMap
    /\ blankNodes = EmptyMap
    /\ input = File(FALSE, JNull)
    /\ model = Nil
    /\ origin = EmptyMap
    /\ ret = Nil
    /\ pc = "idle"
    /\ todo = {}
    /\ calls = 0
    /\ fed = 0
    /\ pool = MixedPool
    /\ givenIRI = ""
    /\ derived = Nil
    /\ cmd = Nil
    /\ reader = Nil
    /\ norm = Nil

SpecMixed == InitMixed /\ [][Next]_vars

(***************************************************************************)
(* Claims about the order of the passes and about classification, checked  *)
(* on the second vocabulary.                                               *)
(***************************************************************************)
EnumsIn(m)   == IF m = Nil THEN EmptyMap ELSE m.Enums
ClassesIn(m) == IF m = Nil THEN EmptyMap ELSE m.Classes

\* this step creates an Enum or appends a value to one
EnumGrows ==
    \E k \in DOMAIN EnumsIn(model') :
        \/ k \notin DOMAIN EnumsIn(model)
        \/ Len(model'.Enums[k].Values) > Len(model.Enums[k].Values)

\* this step attaches a PropertyRef to a class or sets its IsAbstract flag
ShapeWork ==
    \E X \in DOMAIN ClassesIn(model') :
        /\ model'.Classes[X].Properties # <<>> \/ model'.Classes[X].IsAbstract
        /\ \/ X \notin DOMAIN ClassesIn(model)
           \/ model'.Classes[X].Properties # model.Classes[X].Properties
           \/ model'.Classes[X].IsAbstract # model.Classes[X].IsAbstract

\* every class node and every property node of the index is in the Model
AllMaterialized ==
    /\ model # Nil
    /\ \A id \in DOMAIN nodes :
        /\ containsType(getTypes(nodes[id]), owlClass) => id \in DOMAIN model.Classes
        /\ (\/ containsType(getTypes(nodes[id]), owlObjectProperty)
            \/ containsType(getTypes(nodes[id]), owlDatatypeProperty))
              => id \in DOMAIN model.Properties

\* in Model m every individual of the index has its decision: it is a value
\* of an enum exactly when some type of it under the base URI is not a class
\* with a parent, wherever the class node stands in the input
EnumsResolvedIn(m) ==
    \A id \in DOMAIN nodes :
        IsIndividual(id) =>
            ((\E k \in DOMAIN m.Enums : \E i \in 1..Len(m.Enums[k].Values) :
                    m.Enums[k].Values[i].ID = id)
             <=> (\E t \in BaseTypes(id) :
                    ~(t \in DOMAIN m.Classes /\ m.Classes[t].Parent # "")))

PassesInSequence ==
    /\ EnumGrows => (pc = "pass2" /\ AllMaterialized)
    /\ ShapeWork => (pc = "pass3" /\ AllMaterialized /\ EnumsResolvedIn(model)
                     /\ EnumsIn(model') = EnumsIn(model))
    /\ (pc' = "done" /\ ret'.err = "") => EnumsResolvedIn(ret'.model)

\* C11: the three passes run strictly in sequence.  A step creates or extends
\* an Enum only in the second pass, when every class and property node of the
\* index is already in the Model; a step attaches a PropertyRef or sets
\* IsAbstract only in the third pass, when every individual already has its
\* enum decision; so the decisions do not depend on where the class node
\* stands in the input array.
C11_PassesInSequence == [][PassesInSequence]_vars

\* a returned Model for an array in which the individual stands before its
\* class and the shape before the blank node it lists: the class with a parent
\* was still rejected as an enum and the PropertyRef was still attached
C11_Witness ==
    /\ Succeeded
    /\ calls = 1
    /\ input.data = JArr(<<NProbe, NTool, NBar>>)
    /\ EnumKeys = {HashIRI}
    /\ Len(ret.model.Classes[ToolIRI].Properties) = 1

(***************************************************************************)
(* extractName and extractNamespace on their own: an IRI is given, and     *)
(* parseClass derives Name and Namespace from it (lines 206 and 208).       *)
(***************************************************************************)
Alphabet == {"a", "/", "#"}

RECURSIVE Words(_)
Words(n) ==
    IF n = 0 THEN {""}
    ELSE Words(n - 1) \cup {w \o c : w \in Words(n - 1), c \in Alphabet}

ElementIRI == spdxBaseURI \o "Core/Element"

\* short strings, the same under the base URI, and IRIs of the vocabulary
IRIs ==
    Words(MaxTail)
    \cup {spdxBaseURI \o w : w \in Words(MaxTail)}
    \cup {ElementIRI, HashIRI \o "/sha256", FooIRI, owlClass, shaclPath, "xsd:string"}

InitNames ==
    /\ nodes = EmptyMap
    /\ blankNodes = EmptyMap
    /\ input = File(FALSE, JNull)
    /\ model = Nil
    /\ origin = EmptyMap
    /\ ret = Nil
    /\ pc = "idle"
    /\ todo = {}
    /\ calls = 0
    /\ fed = 0
    /\ pool = <<>>
    /\ givenIRI \in IRIs
    /\ derived = EmptyMap
    /\ cmd = Nil
    /\ reader = Nil
    /\ norm = Nil

\* parseClass line 206: Name: extractName(id)
DeriveName ==
    /\ derived # Nil
    /\ "Name" \notin DOMAIN derived
    /\ derived' = MapPut(derived, "Name", extractName(givenIRI))
    /\ UNCHANGED <<parserVars, pool, givenIRI, cmd, reader, norm>>

\* parseClass line 208: Namespace: extractNamespace(id)
DeriveNamespace ==
    /\ derived # Nil
    /\ "Namespace" \notin DOMAIN derived
    /\ derived' = MapPut(derived, "Namespace", extractNamespace(givenIRI))
    /\ UNCHANGED <<parserVars, pool, givenIRI, cmd, reader, norm>>

NextNames ==
    \/ DeriveName
    \/ DeriveNamespace

SpecNames == InitNames /\ [][NextNames]_vars

\* the positions of s that hold a '/' or a '#'
Separators(s) == {i \in 1..Len(s) : CharAt(s, i) \in {"/", "#"}}

\* the substring after the last '/' or '#', whichever occurs last
AfterLastSeparator(s) ==
    IF Separators(s) = {} THEN s
    ELSE SubSeq(s, (CHOOSE i \in Separators(s) : \A j \in Separators(s) : i >= j) + 1, Len(s))

\* C12: the derived local name of every IRI is the substring after its last
\* '/' or '#', whichever of the two occurs last, and the whole IRI when it
\* holds neither
C12_LocalName ==
    "Name" \in DOMAIN derived => derived["Name"] = AfterLastSeparator(givenIRI)

UnderBase(s) == Len(s) >= Len(spdxBaseURI) /\ SubSeq(s, 1, Len(spdxBaseURI)) = spdxBaseURI

\* what follows the base URI in an IRI under it
AfterBase(s) == SubSeq(s, Len(spdxBaseURI) + 1, Len(s))

\* ns is the text of rest up to its first '/', or all of rest when it has none
IsFirstSegment(ns, rest) ==
    /\ Len(ns) <= Len(rest)
    /\ SubSeq(rest, 1, Len(ns)) = ns
    /\ \A i \in 1..Len(ns) : CharAt(ns, i) # "/"
    /\ Len(ns) = Len(rest) \/ CharAt(rest, Len(ns) + 1) = "/"

\* C13 as stated: the Namespace is the segment that follows the base URI, and
\* it is empty exactly when the IRI is outside the base or nothing follows it
C13_EmptyOnlyOutsideBase ==
    "Namespace" \in DOMAIN derived =>
        /\ UnderBase(givenIRI) => IsFirstSegment(derived["Namespace"], AfterBase(givenIRI))
        /\ derived["Namespace"] = ""
              <=> (~UnderBase(givenIRI) \/ AfterBase(givenIRI) = "")

\* C13, amended: the Namespace is the segment that follows the base URI; it is
\* empty exactly when the IRI is outside the base, nothing follows the base,
\* or what follows begins with '/'
C13_NamespaceSegment ==
    "Namespace" \in DOMAIN derived =>
        /\ UnderBase(givenIRI) => IsFirstSegment(derived["Namespace"], AfterBase(givenIRI))
        /\ derived["Namespace"] = ""
              <=> \/ ~UnderBase(givenIRI)
                  \/ AfterBase(givenIRI) = ""
                  \/ CharAt(AfterBase(givenIRI), 1) = "/"

\* the Namespace of an IRI with two segments after the base URI
C13_Witness ==
    /\ givenIRI = ElementIRI
    /\ "Namespace" \in DOMAIN derived
    /\ derived["Namespace"] = "Core"

\* the entries (enum key, position) of the returned Model whose ID is id
EntriesOf(id) ==
    {e \in UNION {{<<k, i>> : i \in 1..Len(ret.model.Enums[k].Values)} : k \in EnumKeys} :
        ret.model.Enums[e[1]].Values[e[2]].ID = id}

\* C14: in every returned Model each individual is a value of at most one
\* enum, and there only once, even when it has several types under the base
\* URI
C14_AtMostOneEnum ==
    Succeeded => \A id \in DOMAIN nodes : Cardinality(EntriesOf(id)) <= 1

\* a returned Model with the individual that has three types under the base
\* URI, none of them rejected: it is a value of the first one only
C14_Witness ==
    /\ Succeeded
    /\ ProbeIRI \in DOMAIN nodes
    /\ Cardinality(BaseTypes(ProbeIRI)) = 3
    /\ \A t \in BaseTypes(ProbeIRI) : ~IsClassWithParent(t)
    /\ EntriesOf(ProbeIRI) = {<<ToolIRI, 1>>}

\* the array element carries an "@id" that is a non-empty string
HasUsableId(item) ==
    /\ item.t = "object"
    /\ "@id" \in DOMAIN item.f
    /\ item.f["@id"].t = "string"
    /\ item.f["@id"].s # ""

\* the file without the elements that carry no usable "@id"
WithoutIdless(file) == File(TRUE, JArr(SelectSeq(file.data.items, HasUsableId)))

HasIdless(file) ==
    /\ file.readable
    /\ file.data.t = "array"
    /\ \E i \in 1..Len(file.data.items) :
        file.data.items[i].t = "object" /\ ~HasUsableId(file.data.items[i])

\* C15: a node without "@id", or with one that is no string or is empty, is
\* dropped.  No index and no part of a returned Model has the empty id as
\* key or ID, and a first call on a file of objects that holds such nodes
\* succeeds with the Model of the file without them.
C15_IdlessDropped ==
    /\ "" \notin DOMAIN nodes \cup DOMAIN blankNodes
    /\ Succeeded =>
        /\ "" \notin ClassKeys \cup PropKeys \cup EnumKeys
        /\ EntriesOf("") = {}
        /\ \A X \in DOMAIN origin : \A i \in 1..Len(origin[X]) : origin[X][i] # ""
    /\ (pc = "done" /\ calls = 1 /\ HasIdless(input) /\ IsArrayOfObjects(input.data)) =>
        /\ ret.err = ""
        /\ SameModel(ret.model, FreshModel(WithoutIdless(input)))

\* a first call on a file with two such nodes around a class node
C15_Witness ==
    /\ Succeeded
    /\ calls = 1
    /\ input.data = JArr(<<NNoId, NAgent, NNumId>>)
    /\ ClassKeys = {AgentIRI}

IsBlankId(id) == Len(id) >= 2 /\ SubSeq(id, 1, 2) = "_:"

\* the "@id" an indexed node carries
IdOf(node) == node["@id"].s

\* C16: blank nodes are stored only in the blank-node index and the other
\* nodes with a non-empty id only in the IRI index, each under its own id; a
\* blank node is never classified, whatever its types: it is no key of
\* Classes, Properties or Enums and no EnumValue, and only a shape's property
\* list brings it into the Model, as the origin of a PropertyRef.
C16_BlankNodesApart ==
    /\ \A k \in DOMAIN blankNodes : IsBlankId(k) /\ IdOf(blankNodes[k]) = k
    /\ \A k \in DOMAIN nodes : ~IsBlankId(k) /\ k # "" /\ IdOf(nodes[k]) = k
    /\ DOMAIN nodes \cap DOMAIN blankNodes = {}
    /\ Succeeded =>
        /\ \A b \in DOMAIN blankNodes :
            /\ b \notin ClassKeys \cup PropKeys \cup EnumKeys
            /\ EntriesOf(b) = {}
        /\ \A X \in DOMAIN origin : \A i \in 1..Len(origin[X]) :
            /\ origin[X][i] \in ListedBlanks(X)
            /\ ret.model.Classes[X].Properties[i] = parsePropertyRef(blankNodes[origin[X][i]])

\* a returned Model for a graph with the blank node whose types carry every
\* marker: a shape lists it, and it gave one PropertyRef and nothing else
C16_Witness ==
    /\ Succeeded
    /\ "_:b2" \in DOMAIN blankNodes
    /\ containsType(getTypes(blankNodes["_:b2"]), owlClass)
    /\ containsType(getTypes(blankNodes["_:b2"]), owlNamedIndividual)
    /\ AgentIRI \in DOMAIN origin
    /\ origin[AgentIRI] = <<"_:b2">>
    /\ EnumKeys = {HashIRI}
    /\ EntriesOf(AgentIRI) = {<<HashIRI, 1>>}

HasType(id, marker) == containsType(getTypes(nodes[id]), marker)

\* the indexed blank nodes that shape X lists and that are no markers
ListedShapes(X) == {b \in ListedBlanks(X) : ~IsMarkerBlank(b)}

\* C17: classification is not mutually exclusive.  In every returned Model an
\* indexed node is a class exactly when its types hold the class marker, a
\* property exactly when they hold one of the two property markers, has its
\* enum decision when they hold the named-individual marker, and has its
\* property list resolved when they hold the node-shape marker and it is a
\* class, whatever other markers the types hold.
C17_EveryPredicateApplies ==
    Succeeded =>
        \A id \in DOMAIN nodes :
            /\ id \in ClassKeys <=> HasType(id, owlClass)
            /\ id \in PropKeys <=> (\/ HasType(id, owlObjectProperty)
                                    \/ HasType(id, owlDatatypeProperty))
            /\ HasType(id, owlNamedIndividual) =>
                (IsValueOfSomeEnum(id) <=> \E t \in BaseTypes(id) : ~IsClassWithParent(t))
            /\ (HasType(id, shaclNodeShape) /\ id \in ClassKeys) =>
                /\ ListedShapes(id) # {} <=> ret.model.Classes[id].Properties # <<>>
                /\ (\E b \in ListedBlanks(id) : IsMarkerBlank(b))
                       <=> ret.model.Classes[id].IsAbstract

\* a returned Model with the node that is class, object property, individual
\* and node shape at once: it is a class, a property and an enum value, and
\* its property list was resolved
C17_Witness ==
    /\ Succeeded
    /\ AgentIRI \in DOMAIN nodes
    /\ HasType(AgentIRI, owlClass) /\ HasType(AgentIRI, owlObjectProperty)
    /\ HasType(AgentIRI, owlNamedIndividual) /\ HasType(AgentIRI, shaclNodeShape)
    /\ AgentIRI \in ClassKeys \cap PropKeys
    /\ EntriesOf(AgentIRI) = {<<HashIRI, 1>>}
    /\ Len(ret.model.Classes[AgentIRI].Properties) = 2

\* the statements an indexed node makes under key
StatementsOf(node, key) ==
    IF key \in DOMAIN node /\ node[key].t = "array" THEN node[key].items ELSE <<>>

IsIRIRef(item) ==
    item.t = "object" /\ "@id" \in DOMAIN item.f /\ item.f["@id"].t = "string"

\* field holds the IRI of the node's first statement under key, and is empty
\* when the node makes none
IsFirstStatement(field, node, key) ==
    /\ StatementsOf(node, key) = <<>> => field = ""
    /\ (StatementsOf(node, key) # <<>> /\ IsIRIRef(StatementsOf(node, key)[1]))
          => field = StatementsOf(node, key)[1].f["@id"].s

\* C18: in every returned Model Class.Parent is the IRI of the class node's
\* first subclass-of statement (empty when it has none), and Property.Range
\* the IRI of the property node's first range statement; later statements
\* are ignored.
C18_FirstStatementWins ==
    Succeeded =>
        /\ \A X \in ClassKeys :
            IsFirstStatement(ret.model.Classes[X].Parent, nodes[X], rdfsSubClassOf)
        /\ \A p \in PropKeys :
            IsFirstStatement(ret.model.Properties[p].Range, nodes[p], rdfsRange)

\* a returned Model with a class of two different subclass-of statements, a
\* class with none that is also a property of two different range statements,
\* and a property with none
C18_Witness ==
    /\ Succeeded
    /\ {ToolIRI, AgentIRI} \subseteq ClassKeys
    /\ {AgentIRI, GhostIRI} \subseteq PropKeys
    /\ Len(StatementsOf(nodes[ToolIRI], rdfsSubClassOf)) = 2
    /\ StatementsOf(nodes[ToolIRI], rdfsSubClassOf)[1] # StatementsOf(nodes[ToolIRI], rdfsSubClassOf)[2]
    /\ ret.model.Classes[ToolIRI].Parent = AgentIRI
    /\ ret.model.Classes[AgentIRI].Parent = ""
    /\ Len(StatementsOf(nodes[AgentIRI], rdfsRange)) = 2
    /\ ret.model.Properties[AgentIRI].Range = ToolIRI
    /\ ret.model.Properties[GhostIRI].Range = ""

\* the list entry references an indexed blank node that is no abstract marker
IsKeptEntry(item) ==
    /\ IsIRIRef(item)
    /\ item.f["@id"].s \in DOMAIN blankNodes
    /\ ~IsMarkerBlank(item.f["@id"].s)

\* the PropertyRefs of the kept entries of X's property list, in list order
RefsFromList(X) ==
    LET kept == SelectSeq(StatementsOf(nodes[X], shaclProperty), IsKeptEntry)
    IN  [i \in 1..Len(kept) |-> parsePropertyRef(blankNodes[kept[i].f["@id"].s])]

\* C19: in every returned Model the Properties of a class that is a node
\* shape are exactly the PropertyRefs of those entries of its property list
\* that reference an indexed blank node and are no abstract markers, in list
\* order, and a class that is no node shape has none; a dangling entry is
\* skipped without error, and a node shape that is no class creates no class.
C19_PropertiesFollowList ==
    /\ Succeeded =>
        /\ \A X \in ClassKeys :
            ret.model.Classes[X].Properties = IF IsShape(X) THEN RefsFromList(X) ELSE <<>>
        /\ \A id \in DOMAIN nodes :
            (IsShape(id) /\ ~HasType(id, owlClass)) => id \notin ClassKeys \cup DOMAIN origin
    /\ (pc = "done" /\ input.readable /\ IsArrayOfObjects(input.data)) => ret.err = ""

\* a returned Model for the class whose list names a marker that is not
\* indexed, two indexed blank nodes and, between them, a dangling identifier:
\* two different PropertyRefs, in list order
C19_Witness ==
    /\ Succeeded
    /\ ToolIRI \in ClassKeys
    /\ DOMAIN blankNodes = {"_:b2", "_:b0"}
    /\ origin[ToolIRI] = <<"_:b2", "_:b0">>
    /\ Len(ret.model.Classes[ToolIRI].Properties) = 2
    /\ ret.model.Classes[ToolIRI].Properties[1] # ret.model.Classes[ToolIRI].Properties[2]
    /\ Len(StatementsOf(nodes[ToolIRI], shaclProperty)) = 4

(***************************************************************************)
(* The spdx-gen command (cmd/spdx-gen/main.go, lines 27-65): one process   *)
(* from its flags to its exit.  The files it may be pointed at, and        *)
(* whether the generator succeeds, are inputs.                             *)
(***************************************************************************)
SpecFiles == {"", "model.jsonld", "broken.jsonld", "absent.jsonld"}
OutDirs   == {"", "out", "gen/spdx"}
PkgNames  == {"spdx", "v3"}
Versions  == {"", "3.1.0"}

\* what os.ReadFile finds at the path
FileAt(path) ==
    IF path = "model.jsonld" THEN File(TRUE, JArr(<<NFoo, NBar>>))
    ELSE IF path = "broken.jsonld" THEN File(TRUE, JObj(NoKeys))
    ELSE File(FALSE, JNull)

\* gen.NewParser().ParseFile(path): the result of a first call on a new Parser
ParseNewFile(path) ==
    IF ReadFile(FileAt(path)).err THEN [model |-> Nil, err |-> "read file"]
    ELSE IF UnmarshalNodes(ReadFile(FileAt(path)).v).err
         THEN [model |-> Nil, err |-> "unmarshal JSON-LD"]
         ELSE [model |-> FreshModel(FileAt(path)), err |-> ""]

\* (variant for C20: usage only when both required flags are missing)
FlagsMissingBoth(specFile, outDir) == specFile = "" /\ outDir = ""

\* line 42: specFile == "" || outDir == ""
FlagsMissing(specFile, outDir) == specFile = "" \/ outDir = ""

\* flag.Parse has run; nothing printed, nothing called, not exited
Started(specFile, outDir, pkgName, version) ==
    [pc |-> "flags", specFile |-> specFile, outDir |-> outDir, pkgName |-> pkgName,
     version |-> version, model |-> Nil, parseCalls |-> 0, generateCalls |-> 0,
     generateErr |-> Nil, output |-> <<>>, exit |-> -1]

InitCmd ==
    /\ nodes = EmptyMap
    /\ blankNodes = EmptyMap
    /\ input = File(FALSE, JNull)
    /\ model = Nil
    /\ origin = EmptyMap
    /\ ret = Nil
    /\ pc = "idle"
    /\ todo = {}
    /\ calls = 0
    /\ fed = 0
    /\ pool = <<>>
    /\ givenIRI = ""
    /\ derived = Nil
    /\ cmd \in {Started(s, o, p, v) : s \in SpecFiles, o \in OutDirs, p \in PkgNames,
                                      v \in Versions}
    /\ reader = Nil
    /\ norm = Nil

notCmd == <<parserVars, pool, givenIRI, derived, reader, norm>>

\* lines 42-45: flag.Usage(); os.Exit(1)
Usage ==
    /\ cmd # Nil /\ cmd.pc = "flags"
    /\ FlagsMissing(cmd.specFile, cmd.outDir)
    /\ cmd' = [cmd EXCEPT !.output = Append(@, "usage"), !.exit = 1, !.pc = "exited"]
    /\ UNCHANGED notCmd

\* lines 48-52, ParseFile returns an error: log.Fatalf, which exits with 1
ParseFails ==
    /\ cmd # Nil /\ cmd.pc = "flags"
    /\ ~FlagsMissing(cmd.specFile, cmd.outDir)
    /\ ParseNewFile(cmd.specFile).err # ""
    /\ cmd' = [cmd EXCEPT !.parseCalls = @ + 1,
                          !.output = Append(@, "fatal: Failed to parse model"),
                          !.exit = 1, !.pc = "exited"]
    /\ UNCHANGED notCmd

\* lines 48-52, ParseFile returns a Model
ParseSucceeds ==
    /\ cmd # Nil /\ cmd.pc = "flags"
    /\ ~FlagsMissing(cmd.specFile, cmd.outDir)
    /\ ParseNewFile(cmd.specFile).err = ""
    /\ cmd' = [cmd EXCEPT !.parseCalls = @ + 1,
                          !.model = ParseNewFile(cmd.specFile).model,
                          !.pc = "parsed"]
    /\ UNCHANGED notCmd

\* lines 54-57: the -version flag overrides Model.SpecVersion
SetVersion ==
    /\ cmd # Nil /\ cmd.pc = "parsed"
    /\ cmd' = [cmd EXCEPT !.model.SpecVersion = IF cmd.version # "" THEN cmd.version ELSE @,
                          !.pc = "versioned"]
    /\ UNCHANGED notCmd

\* lines 59-62, Generate returns an error: log.Fatalf, which exits with 1
GenerateFails ==
    /\ cmd # Nil /\ cmd.pc = "versioned"
    /\ cmd' = [cmd EXCEPT !.generateCalls = @ + 1,
                          !.generateErr = "generate failed",
                          !.output = Append(@, "fatal: Failed to generate code"),
                          !.exit = 1, !.pc = "exited"]
    /\ UNCHANGED notCmd

\* lines 59-65, Generate returns nil: the confirmation, and main returns
GenerateSucceeds ==
    /\ cmd # Nil /\ cmd.pc = "versioned"
    /\ cmd' = [cmd EXCEPT !.generateCalls = @ + 1,
                          !.generateErr = "",
                          !.output = Append(@, "Successfully generated code in " \o cmd.outDir),
                          !.exit = 0, !.pc = "exited"]
    /\ UNCHANGED notCmd

NextCmd ==
    \/ Usage
    \/ ParseFails
    \/ ParseSucceeds
    \/ SetVersion
    \/ GenerateFails
    \/ GenerateSucceeds

SpecCmd == InitCmd /\ [][NextCmd]_vars

Exited == cmd # Nil /\ cmd.pc = "exited"

\* extraction from the file the -spec flag names gives no Model
ExtractionFails ==
    \/ ~FileAt(cmd.specFile).readable
    \/ ~IsArrayOfObjects(FileAt(cmd.specFile).data)

\* C20: spdx-gen exits with 1 after the usage text, without a ParseFile call,
\* when -spec or -out is missing; with 1 after a fatal log message when
\* extraction or generation fails; with 0 after the confirmation only when
\* both succeeded; and it never calls Generate after a failed extraction.
C20_ExitCodes ==
    cmd # Nil =>
        /\ (cmd.exit # -1) <=> Exited
        /\ cmd.generateCalls > 0 => (cmd.parseCalls = 1 /\ ~ExtractionFails)
        /\ cmd.parseCalls > 0 => (cmd.specFile # "" /\ cmd.outDir # "")
        /\ Exited =>
            IF cmd.specFile = "" \/ cmd.outDir = ""
            THEN /\ cmd.exit = 1
                 /\ cmd.output = <<"usage">>
                 /\ cmd.parseCalls = 0 /\ cmd.generateCalls = 0
            ELSE IF ExtractionFails
            THEN /\ cmd.exit = 1
                 /\ cmd.output = <<"fatal: Failed to parse model">>
                 /\ cmd.parseCalls = 1 /\ cmd.generateCalls = 0
            ELSE IF cmd.generateErr # ""
            THEN /\ cmd.exit = 1
                 /\ cmd.output = <<"fatal: Failed to generate code">>
                 /\ cmd.parseCalls = 1 /\ cmd.generateCalls = 1
            ELSE /\ cmd.exit = 0
                 /\ cmd.output = <<"Successfully generated code in " \o cmd.outDir>>
                 /\ cmd.parseCalls = 1 /\ cmd.generateCalls = 1

\* a run that exited with 0: both flags given, a Model extracted, its version
\* overridden, the generator called once
C20_Witness ==
    /\ Exited
    /\ cmd.exit = 0
    /\ cmd.version = "3.1.0"
    /\ cmd.model.SpecVersion = "3.1.0"
    /\ FooIRI \in DOMAIN cmd.model.Classes
    /\ cmd.generateCalls = 1

(***************************************************************************)
(* model/v3.0.1/spdx.go, lines 365-445: relationship type names.  The      *)
(* RelationshipType constants and IsValid are generated code               *)
(* (enums_gen.go); the value of each constant is the camelCase form of its *)
(* name, as the package's tests and documentation use them.                *)
(***************************************************************************)
\* relationshipTypeMap maps uppercase underscore format to camelCase format.
relationshipTypeMap ==
    ("AFFECTS" :> "affects") @@ ("AMENDED_BY" :> "amendedBy")
    @@ ("ANCESTOR_OF" :> "ancestorOf")
    @@ ("AVAILABLE_FROM" :> "availableFrom")
    @@ ("CONFIGURES" :> "configures") @@ ("CONTAINS" :> "contains")
    @@ ("COORDINATED_BY" :> "coordinatedBy") @@ ("COPIED_TO" :> "copiedTo")
    @@ ("DELEGATED_TO" :> "delegatedTo") @@ ("DEPENDS_ON" :> "dependsOn")
    @@ ("DESCENDANT_OF" :> "descendantOf") @@ ("DESCRIBES" :> "describes")
    @@ ("DOES_NOT_AFFECT" :> "doesNotAffect")
    @@ ("EXPANDS_TO" :> "expandsTo")
    @@ ("EXPLOIT_CREATED_BY" :> "exploitCreatedBy")
    @@ ("FIXED_BY" :> "fixedBy") @@ ("FIXED_IN" :> "fixedIn")
    @@ ("FOUND_BY" :> "foundBy") @@ ("GENERATES" :> "generates")
    @@ ("HAS_ADDED_FILE" :> "hasAddedFile")
    @@ ("HAS_ASSESSMENT_FOR" :> "hasAssessmentFor")
    @@ ("HAS_ASSOCIATED_VULNERABILITY" :> "hasAssociatedVulnerability")
    @@ ("HAS_CONCLUDED_LICENSE" :> "hasConcludedLicense")
    @@ ("HAS_DATA_FILE" :> "hasDataFile")
    @@ ("HAS_DECLARED_LICENSE" :> "hasDeclaredLicense")
    @@ ("HAS_DELETED_FILE" :> "hasDeletedFile")
    @@ ("HAS_DEPENDENCY_MANIFEST" :> "hasDependencyManifest")
    @@ ("HAS_DISTRIBUTION_ARTIFACT" :> "hasDistributionArtifact")
    @@ ("HAS_DOCUMENTATION" :> "hasDocumentation")
    @@ ("HAS_DYNAMIC_LINK" :> "hasDynamicLink")
    @@ ("HAS_EVIDENCE" :> "hasEvidence") @@ ("HAS_EXAMPLE" :> "hasExample")
    @@ ("HAS_HOST" :> "hasHost") @@ ("HAS_INPUT" :> "hasInput")
    @@ ("HAS_METADATA" :> "hasMetadata")
    @@ ("HAS_OPTIONAL_COMPONENT" :> "hasOptionalComponent")
    @@ ("HAS_OPTIONAL_DEPENDENCY" :> "hasOptionalDependency")
    @@ ("HAS_OUTPUT" :> "hasOutput")
    @@ ("HAS_PREREQUISITE" :> "hasPrerequisite")
    @@ ("HAS_PROVIDED_DEPENDENCY" :> "hasProvidedDependency")
    @@ ("HAS_REQUIREMENT" :> "hasRequirement")
    @@ ("HAS_SPECIFICATION" :> "hasSpecification")
    @@ ("HAS_STATIC_LINK" :> "hasStaticLink") @@ ("HAS_TEST" :> "hasTest")
    @@ ("HAS_TEST_CASE" :> "hasTestCase") @@ ("HAS_VARIANT" :> "hasVariant")
    @@ ("INVOKED_BY" :> "invokedBy") @@ ("MODIFIED_BY" :> "modifiedBy")
    @@ ("OTHER" :> "other") @@ ("PACKAGED_BY" :> "packagedBy")
    @@ ("PATCHED_BY" :> "patchedBy") @@ ("PUBLISHED_BY" :> "publishedBy")
    @@ ("REPORTED_BY" :> "reportedBy")
    @@ ("REPUBLISHED_BY" :> "republishedBy")
    @@ ("SERIALIZED_IN_ARTIFACT" :> "serializedInArtifact")
    @@ ("TESTED_ON" :> "testedOn") @@ ("TRAINED_ON" :> "trainedOn")
    @@ ("UNDER_INVESTIGATION_FOR" :> "underInvestigationFor")
    @@ ("USES_TOOL" :> "usesTool")

\* the RelationshipType constants of the package
RelationshipTypes == {relationshipTypeMap[k] : k \in DOMAIN relationshipTypeMap}

\* RelationshipType.IsValid: the value is one of the constants
IsValid(rt) == rt \in RelationshipTypes

\* (variant for C23: a string that is neither valid nor in the table is
\* returned in lower case)
NormalizeRelationshipTypeLower(s) ==
    IF IsValid(s) THEN s
    ELSE IF s \in DOMAIN relationshipTypeMap THEN relationshipTypeMap[s]
    ELSE ToLower(s)

\* NormalizeRelationshipType converts a relationship type string to the
\* canonical camelCase format.
NormalizeRelationshipType(s) ==
    IF IsValid(s) THEN s
    ELSE IF s \in DOMAIN relationshipTypeMap THEN relationshipTypeMap[s]
    ELSE s

\* the strings handed to NormalizeRelationshipType: every constant, every
\* name of the table, and strings that are neither
OtherTypeNames ==
    {"", "invalid", "Depends_On", "depends_on", "DEPENDSON", "DependsOn", "dependson",
     "CONTAINS ", "Other", "HAS_", "x"}

TypeNames == RelationshipTypes \cup DOMAIN relationshipTypeMap \cup OtherTypeNames

InitNorm ==
    /\ nodes = EmptyMap
    /\ blankNodes = EmptyMap
    /\ input = File(FALSE, JNull)
    /\ model = Nil
    /\ origin = EmptyMap
    /\ ret = Nil
    /\ pc = "idle"
    /\ todo = {}
    /\ calls = 0
    /\ fed = 0
    /\ pool = <<>>
    /\ givenIRI = ""
    /\ derived = Nil
    /\ cmd = Nil
    /\ reader = Nil
    /\ norm \in {[s |-> s, results |-> <<>>] : s \in TypeNames}

notNorm == <<parserVars, pool, givenIRI, derived, cmd, reader>>

\* NormalizeRelationshipType(s)
Normalize ==
    /\ norm # Nil /\ Len(norm.results) = 0
    /\ norm' = [norm EXCEPT !.results = <<NormalizeRelationshipType(norm.s)>>]
    /\ UNCHANGED notNorm

\* NormalizeRelationshipType(string(r)) for the result r of the first call
NormalizeAgain ==
    /\ norm # Nil /\ Len(norm.results) = 1
    /\ norm' = [norm EXCEPT !.results = Append(@, NormalizeRelationshipType(norm.results[1]))]
    /\ UNCHANGED notNorm

NextNorm ==
    \/ Normalize
    \/ NormalizeAgain

SpecNorm == InitNorm /\ [][NextNorm]_vars

\* C23: NormalizeRelationshipType maps every valid camelCase type to itself,
\* every name of the table to its camelCase type and any other string, the
\* empty one included, to itself; applied to its own result it changes
\* nothing.
C23_NormalizeIdempotent ==
    (norm # Nil /\ Len(norm.results) > 0) =>
        /\ norm.s \in RelationshipTypes => norm.results[1] = norm.s
        /\ norm.s \in DOMAIN relationshipTypeMap
              => norm.results[1] = relationshipTypeMap[norm.s]
        /\ norm.s \notin RelationshipTypes \cup DOMAIN relationshipTypeMap
              => norm.results[1] = norm.s
        /\ Len(norm.results) > 1 => norm.results[2] = norm.results[1]

\* both calls made for a name of the table
C23_Witness ==
    /\ norm # Nil
    /\ norm.s = "DEPENDS_ON"
    /\ norm.results = <<"dependsOn", "dependsOn">>

(***************************************************************************)
(* parse/reader.go: Reader.Read and Reader.parse, with the parts of the    *)
(* Document that packages, files and relationships reach.  A pointer to a  *)
(* package, file or relationship is its position in the Document's slice   *)
(* of them.  Values decoded into interface{} keep their JSON shape.        *)
(***************************************************************************)
TypeRelationship    == "Relationship"
TypeSoftwarePackage == "software_Package"
TypeSoftwareFile    == "software_File"

\* Helpers.GetString: m[key].(string), "" otherwise
GetString(m, key) == IF key \in DOMAIN m /\ m[key].t = "string" THEN m[key].s ELSE ""

\* Helpers.GetSlice: m[key].([]interface{}), nil otherwise
GetSlice(m, key) == IF key \in DOMAIN m /\ m[key].t = "array" THEN m[key].items ELSE <<>>

IsString(v) == v.t = "string"

\* the strings among the items, in order: `if ts, ok := t.(string); ok`
StringsAmong(items) ==
    LET strs == SelectSeq(items, IsString)
    IN  [i \in 1..Len(strs) |-> strs[i].s]

getElementType(elemMap) == GetString(elemMap, "type")

ParseElement(elemMap) ==
    [SpdxID |-> GetString(elemMap, "spdxId"), Name |-> GetString(elemMap, "name")]

ParsePackage(elemMap) ==
    [SpdxID         |-> ParseElement(elemMap).SpdxID,
     Name           |-> ParseElement(elemMap).Name,
     PackageVersion |-> GetString(elemMap, "software_packageVersion")]

ParseFile(elemMap) == ParseElement(elemMap)

ParseRelationship(elemMap) ==
    [SpdxID           |-> ParseElement(elemMap).SpdxID,
     Name             |-> ParseElement(elemMap).Name,
     From             |-> GetString(elemMap, "from"),
     To               |-> StringsAmong(GetSlice(elemMap, "to")),
     RelationshipType |-> IF "relationshipType" \in DOMAIN elemMap
                             /\ elemMap["relationshipType"].t = "string"
                          THEN NormalizeRelationshipType(elemMap["relationshipType"].s)
                          ELSE ""]

\* lines 103-141: the Document with its maps made and nothing in them
NewDocument ==
    [ElementsByID           |-> EmptyMap,
     Packages               |-> <<>>,
     PackagesByID           |-> EmptyMap,
     Files                  |-> <<>>,
     FilesByID              |-> EmptyMap,
     Relationships          |-> <<>>,
     RelationshipsFromIndex |-> EmptyMap,
     RelationshipsToIndex   |-> EmptyMap]

\* (variant for C22: the package is indexed under its name)
categorizeElementByName(doc, elemMap, elemType) ==
    IF elemType = TypeRelationship
    THEN [doc EXCEPT !.Relationships = Append(@, ParseRelationship(elemMap))]
    ELSE IF elemType = TypeSoftwarePackage
    THEN LET pkg == ParsePackage(elemMap)
             d1  == [doc EXCEPT !.Packages = Append(@, pkg)]
         IN  IF pkg.Name # ""
             THEN [d1 EXCEPT !.PackagesByID = MapPut(@, pkg.Name, Len(d1.Packages))]
             ELSE d1
    ELSE IF elemType = TypeSoftwareFile
    THEN LET file == ParseFile(elemMap)
             d1   == [doc EXCEPT !.Files = Append(@, file)]
         IN  IF file.SpdxID # ""
             THEN [d1 EXCEPT !.FilesByID = MapPut(@, file.SpdxID, Len(d1.Files))]
             ELSE d1
    ELSE doc

\* categorizeElement with handleCoreElements and handleSoftwareElements, for
\* the three element types modelled; every other type leaves these fields
categorizeElement(doc, elemMap, elemType) ==
    IF elemType = TypeRelationship
    THEN [doc EXCEPT !.Relationships = Append(@, ParseRelationship(elemMap))]
    ELSE IF elemType = TypeSoftwarePackage
    THEN LET pkg == ParsePackage(elemMap)
             d1  == [doc EXCEPT !.Packages = Append(@, pkg)]
         IN  IF pkg.SpdxID # ""
             THEN [d1 EXCEPT !.PackagesByID = MapPut(@, pkg.SpdxID, Len(d1.Packages))]
             ELSE d1
    ELSE IF elemType = TypeSoftwareFile
    THEN LET file == ParseFile(elemMap)
             d1   == [doc EXCEPT !.Files = Append(@, file)]
         IN  IF file.SpdxID # ""
             THEN [d1 EXCEPT !.FilesByID = MapPut(@, file.SpdxID, Len(d1.Files))]
             ELSE d1
    ELSE doc

\* lines 158-177: the body of the loop over the graph
GraphStep(doc, elem) ==
    IF elem.t # "object" THEN doc
    ELSE LET elemMap == elem.f
             d1 == IF "spdxId" \in DOMAIN elemMap /\ elemMap["spdxId"].t = "string"
                   THEN [doc EXCEPT !.ElementsByID = MapPut(@, elemMap["spdxId"].s, elemMap)]
                   ELSE doc
         IN  categorizeElement(d1, elemMap, getElementType(elemMap))

\* append to the slice a map holds under key (a missing key holds nil)
MapAppend(m, k, v) == MapPut(m, k, IF k \in DOMAIN m THEN Append(m[k], v) ELSE <<v>>)

\* lines 184-187: one relationship's entries in the To index
IndexTo(index, rel, to) ==
    LET F[j \in 0..Len(to)] ==
            IF j = 0 THEN index ELSE MapAppend(F[j - 1], to[j], rel)
    IN  F[Len(to)]

\* lines 180-188: build the relationship indexes
BuildRelationshipIndexes(doc) ==
    LET F[i \in 0..Len(doc.Relationships)] ==
            IF i = 0 THEN doc
            ELSE [F[i - 1] EXCEPT
                    !.RelationshipsFromIndex = MapAppend(@, doc.Relationships[i].From, i),
                    !.RelationshipsToIndex = IndexTo(@, i, doc.Relationships[i].To)]
    IN  F[Len(doc.Relationships)]


\* the longest "@graph" array read
MaxGraph == 3

Pkg(id, name) ==
    JObj(("type" :> JStr(TypeSoftwarePackage)) @@ ("spdxId" :> JStr(id)) @@ ("name" :> JStr(name)))

\* two packages of one name, a second package under the identifier of the
\* first, a package whose identifier is empty, a file, a relationship that
\* names its target twice, a relationship with no "from" and a target that
\* is no string, and an entry that is no object
GraphElements ==
    { Pkg("p1", "lib"),
      Pkg("p2", "lib"),
      Pkg("p1", "app"),
      Pkg("", "lib"),
      JObj(("type" :> JStr(TypeSoftwareFile)) @@ ("spdxId" :> JStr("f1")) @@ ("name" :> JStr("lib"))),
      JObj(("type" :> JStr(TypeRelationship)) @@ ("spdxId" :> JStr("r1"))
           @@ ("from" :> JStr("p1")) @@ ("to" :> JArr(<<JStr("p2"), JStr("p2")>>))
           @@ ("relationshipType" :> JStr("DEPENDS_ON"))),
      JObj(("type" :> JStr(TypeRelationship))
           @@ ("to" :> JArr(<<JNum(1), JStr("p1"), JStr("p2")>>))
           @@ ("relationshipType" :> JStr("contains"))),
      JStr("p1") }

RECURSIVE Graphs(_)
Graphs(n) ==
    IF n = 0 THEN {<<>>}
    ELSE Graphs(n - 1) \cup {Append(g, e) : g \in {h \in Graphs(n - 1) : Len(h) = n - 1},
                                             e \in GraphElements}

\* the bytes handed to Read: what is no JSON, values that are no object,
\* objects whose "@graph" is missing or no array, and objects with a graph
Documents ==
    { [t |-> "malformed"], JNull, JStr("string"), JNum(1), JArr(<<>>),
      JObj(EmptyMap),
      JObj("@context" :> JStr("https://spdx.org/rdf/3.0.1/spdx-context.jsonld")),
      JObj("@graph" :> JNull),
      JObj("@graph" :> JStr("p1")),
      JObj("@graph" :> JObj("spdxId" :> JStr("p1"))) }
    \cup {JObj("@graph" :> JArr(g)) : g \in Graphs(MaxGraph)}

\* the identifiers and names looked up
Lookups == {"", "p1", "p2", "f1", "lib"}

\* (variant for C21: a "@graph" that is no array reads as an empty graph)
HasGraphLenient(docMap) == "@graph" \in DOMAIN docMap

\* line 157: docMap["@graph"].([]interface{})
HasGraph(docMap) == "@graph" \in DOMAIN docMap /\ docMap["@graph"].t = "array"

GraphOf(docMap) == GetSlice(docMap, "@graph")

Idle ==
    /\ nodes = EmptyMap
    /\ blankNodes = EmptyMap
    /\ input = File(FALSE, JNull)
    /\ model = Nil
    /\ origin = EmptyMap
    /\ ret = Nil
    /\ pc = "idle"
    /\ todo = {}
    /\ calls = 0
    /\ fed = 0
    /\ givenIRI = ""
    /\ derived = Nil
    /\ cmd = Nil
    /\ norm = Nil

InitReader ==
    /\ Idle
    /\ pool = <<>>
    /\ reader \in {[pc |-> "Read", data |-> d, doc |-> Nil, err |-> Nil, i |-> 0,
                    op |-> "", arg |-> "", pkg |-> 0, list |-> <<>>] : d \in Documents}

notReader == <<parserVars, pool, givenIRI, derived, cmd, norm>>

\* lines 96-99: json.Unmarshal fails
ReadInvalidJSON ==
    /\ reader # Nil /\ reader.pc = "Read"
    /\ reader.data.t = "malformed"
    /\ reader' = [reader EXCEPT !.pc = "returned", !.doc = Nil,
                                !.err = [msg |-> "parsing JSON: invalid character"]]
    /\ UNCHANGED notReader

\* lines 106-109: the value decoded is no map
ParseNotObject ==
    /\ reader # Nil /\ reader.pc = "Read"
    /\ reader.data.t \notin {"malformed", "object"}
    /\ reader' = [reader EXCEPT !.pc = "returned", !.doc = Nil,
                                !.err = [msg |-> "document is not a JSON object"]]
    /\ UNCHANGED notReader

\* lines 157-160: no "@graph" array
ParseNoGraph ==
    /\ reader # Nil /\ reader.pc = "Read"
    /\ reader.data.t = "object"
    /\ ~HasGraph(reader.data.f)
    /\ reader' = [reader EXCEPT !.pc = "returned", !.doc = Nil,
                                !.err = [msg |-> "document does not contain @graph array"]]
    /\ UNCHANGED notReader

\* lines 111-160: the Document is made and the graph found
ParseGraph ==
    /\ reader # Nil /\ reader.pc = "Read"
    /\ reader.data.t = "object"
    /\ HasGraph(reader.data.f)
    /\ reader' = [reader EXCEPT !.pc = "graph", !.doc = NewDocument, !.i = 0]
    /\ UNCHANGED notReader

\* lines 163-178: one turn of the loop over the graph
CategorizeNext ==
    /\ reader # Nil /\ reader.pc = "graph"
    /\ reader.i < Len(GraphOf(reader.data.f))
    /\ reader' = [reader EXCEPT !.i = @ + 1,
                                !.doc = GraphStep(@, GraphOf(reader.data.f)[reader.i + 1])]
    /\ UNCHANGED notReader

\* lines 180-190: the relationship indexes are built and the Document returned
ParseReturn ==
    /\ reader # Nil /\ reader.pc = "graph"
    /\ reader.i = Len(GraphOf(reader.data.f))
    /\ reader' = [reader EXCEPT !.pc = "returned",
                                !.doc = BuildRelationshipIndexes(@), !.err = Nil]
    /\ UNCHANGED notReader


\* the positions from i on, in order, of the packages named name
RECURSIVE NamedFrom(_, _, _)
NamedFrom(packages, i, name) ==
    IF i > Len(packages) THEN <<>>
    ELSE (IF packages[i].Name = name THEN <<i>> ELSE <<>>) \o NamedFrom(packages, i + 1, name)

\* Document.GetPackageByID, for a Document whose PackagesByID is made:
\* the package the map holds, nil (0) when it holds none
GetPackageByID(doc, spdxID) ==
    IF spdxID \in DOMAIN doc.PackagesByID THEN doc.PackagesByID[spdxID] ELSE 0

\* Document.GetPackageByName
GetPackageByName(doc, name) == NamedFrom(doc.Packages, 1, name)

\* Document.GetRelationshipsFrom, for a Document whose index is made
GetRelationshipsFrom(doc, spdxID) ==
    IF spdxID \in DOMAIN doc.RelationshipsFromIndex
    THEN doc.RelationshipsFromIndex[spdxID] ELSE <<>>

\* Document.GetRelationshipsTo, for a Document whose index is made
GetRelationshipsTo(doc, spdxID) ==
    IF spdxID \in DOMAIN doc.RelationshipsToIndex
    THEN doc.RelationshipsToIndex[spdxID] ELSE <<>>

CanLookup == reader # Nil /\ reader.pc = "returned" /\ reader.doc # Nil

LookupPackageByID ==
    /\ CanLookup
    /\ \E s \in Lookups :
         reader' = [reader EXCEPT !.pc = "looked", !.op = "GetPackageByID", !.arg = s,
                                  !.pkg = GetPackageByID(reader.doc, s)]
    /\ UNCHANGED notReader

LookupPackageByName ==
    /\ CanLookup
    /\ \E n \in Lookups :
         reader' = [reader EXCEPT !.pc = "looked", !.op = "GetPackageByName", !.arg = n,
                                  !.list = GetPackageByName(reader.doc, n)]
    /\ UNCHANGED notReader

LookupRelationshipsFrom ==
    /\ CanLookup
    /\ \E s \in Lookups :
         reader' = [reader EXCEPT !.pc = "looked", !.op = "GetRelationshipsFrom", !.arg = s,
                                  !.list = GetRelationshipsFrom(reader.doc, s)]
    /\ UNCHANGED notReader

LookupRelationshipsTo ==
    /\ CanLookup
    /\ \E s \in Lookups :
         reader' = [reader EXCEPT !.pc = "looked", !.op = "GetRelationshipsTo", !.arg = s,
                                  !.list = GetRelationshipsTo(reader.doc, s)]
    /\ UNCHANGED notReader

NextReader ==
    \/ ReadInvalidJSON
    \/ ParseNotObject
    \/ ParseNoGraph
    \/ ParseGraph
    \/ CategorizeNext
    \/ ParseReturn
    \/ LookupPackageByID
    \/ LookupPackageByName
    \/ LookupRelationshipsFrom
    \/ LookupRelationshipsTo

SpecReader == InitReader /\ [][NextReader]_vars

(***************************************************************************)
(* C21                                                                     *)
(***************************************************************************)
Returned == reader # Nil /\ reader.pc = "returned"

\* the objects among the entries of the graph read
ObjectsRead ==
    LET IsObject(v) == v.t = "object"
    IN  SelectSeq(GraphOf(reader.data.f), IsObject)

\* the Document that the objects of the graph alone give
RECURSIVE DocumentOf(_)
DocumentOf(objs) ==
    IF Len(objs) = 0 THEN NewDocument
    ELSE GraphStep(DocumentOf(SubSeq(objs, 1, Len(objs) - 1)), objs[Len(objs)])

\* C21: Read returns an error and no document for bytes that are no JSON
\* ("parsing JSON"), for a top-level value that is no object ("not a JSON
\* object") and for an object without a "@graph" array ("@graph"); for an
\* object with a "@graph" array, the empty one included, it returns a
\* Document and no error, and the Document is the one the object entries of
\* the graph give: the entries that are no objects are skipped.
C21_ReadOutcomes ==
    Returned =>
        IF reader.data.t = "malformed"
        THEN reader.doc = Nil /\ reader.err # Nil /\ Contains(reader.err.msg, "parsing JSON")
        ELSE IF reader.data.t # "object"
        THEN reader.doc = Nil /\ reader.err # Nil /\ Contains(reader.err.msg, "not a JSON object")
        ELSE IF ~("@graph" \in DOMAIN reader.data.f /\ reader.data.f["@graph"].t = "array")
        THEN reader.doc = Nil /\ reader.err # Nil /\ Contains(reader.err.msg, "@graph")
        ELSE /\ reader.doc # Nil
             /\ reader.err = Nil
             /\ reader.doc = BuildRelationshipIndexes(DocumentOf(ObjectsRead))

\* a graph with an entry that is no object between two packages was read
C21_Witness ==
    /\ Returned
    /\ reader.data.t = "object"
    /\ HasGraph(reader.data.f)
    /\ \E i \in 1..Len(GraphOf(reader.data.f)) : GraphOf(reader.data.f)[i].t # "object"
    /\ reader.doc # Nil
    /\ Len(reader.doc.Packages) = 2


(***************************************************************************)
(* C22                                                                     *)
(***************************************************************************)
Looked(op) == reader # Nil /\ reader.pc = "looked" /\ reader.op = op

IsPackageElement(elem) ==
    /\ elem.t = "object"
    /\ "type" \in DOMAIN elem.f
    /\ elem.f["type"] = JStr(TypeSoftwarePackage)

\* the software_Package elements of the graph read, in order
PackageElements == SelectSeq(GraphOf(reader.data.f), IsPackageElement)

\* the graph holds a software_Package element whose "spdxId" is s
GraphHasPackage(s) ==
    \E i \in 1..Len(PackageElements) :
        /\ "spdxId" \in DOMAIN PackageElements[i].f
        /\ PackageElements[i].f["spdxId"] = JStr(s)

NoPackageHas(s) ==
    \A i \in 1..Len(reader.doc.Packages) : reader.doc.Packages[i].SpdxID # s

\* the names of the package elements, in order, as the graph gives them
ElementNames ==
    [i \in 1..Len(PackageElements) |->
        IF "name" \in DOMAIN PackageElements[i].f /\ PackageElements[i].f["name"].t = "string"
        THEN PackageElements[i].f["name"].s ELSE ""]

\* the list is every package element named n, each once, in document order
IsEveryPackageNamed(list, n) ==
    /\ \A j \in 1..Len(list) : list[j] \in 1..Len(PackageElements) /\ ElementNames[list[j]] = n
    /\ \A j \in 1..(Len(list) - 1) : list[j] < list[j + 1]
    /\ \A i \in 1..Len(PackageElements) :
          ElementNames[i] = n => \E j \in 1..Len(list) : list[j] = i

ByNameReturnsAll ==
    Looked("GetPackageByName") =>
        /\ Len(reader.doc.Packages) = Len(PackageElements)
        /\ IsEveryPackageNamed(reader.list, reader.arg)

\* C22 as stated: after a successful Read, for every identifier s,
\* GetPackageByID(s) returns a package whose SpdxID is s when the graph holds
\* a software_Package element with spdxId s, and nil when no package has
\* that identifier; GetPackageByName(n) returns every parsed package named n.
C22_LookupByIDAndName ==
    /\ Looked("GetPackageByID") =>
          /\ GraphHasPackage(reader.arg) =>
                /\ reader.pkg # 0
                /\ reader.doc.Packages[reader.pkg].SpdxID = reader.arg
          /\ NoPackageHas(reader.arg) => reader.pkg = 0
    /\ ByNameReturnsAll

\* C22 amended: the same for every identifier s that is not empty; for the
\* empty identifier GetPackageByID returns nil, whatever the graph holds.
C22_LookupByNonEmptyID ==
    /\ Looked("GetPackageByID") =>
          /\ (reader.arg # "" /\ GraphHasPackage(reader.arg)) =>
                /\ reader.pkg # 0
                /\ reader.doc.Packages[reader.pkg].SpdxID = reader.arg
          /\ (reader.arg = "" \/ NoPackageHas(reader.arg)) => reader.pkg = 0
    /\ ByNameReturnsAll

\* two packages share the identifier looked up, and one of them was returned
C22_Witness ==
    /\ Looked("GetPackageByID")
    /\ reader.arg = "p1"
    /\ Len(reader.doc.Packages) = 3
    /\ reader.doc.Packages[1].SpdxID = "p1"
    /\ reader.doc.Packages[3].SpdxID = "p1"
    /\ reader.pkg = 3


(***************************************************************************)
(* C30                                                                     *)
(***************************************************************************)
\* document.go lines 133-139: the scan GetRelationshipsFrom makes of
\* Document.Relationships when there is no index
RECURSIVE ScanRelationshipsFrom(_, _, _)
ScanRelationshipsFrom(rels, i, spdxID) ==
    IF i > Len(rels) THEN <<>>
    ELSE (IF rels[i].From = spdxID THEN <<i>> ELSE <<>>)
         \o ScanRelationshipsFrom(rels, i + 1, spdxID)

\* document.go lines 146-157: the scan GetRelationshipsTo makes; the break
\* takes a relationship once however often its To names the identifier
RECURSIVE ScanRelationshipsTo(_, _, _)
ScanRelationshipsTo(rels, i, spdxID) ==
    IF i > Len(rels) THEN <<>>
    ELSE (IF \E j \in 1..Len(rels[i].To) : rels[i].To[j] = spdxID THEN <<i>> ELSE <<>>)
         \o ScanRelationshipsTo(rels, i + 1, spdxID)

\* C30: for every Document built by Read and every identifier s, the lookups
\* backed by the indexes agree with a scan of Document.Relationships:
\* GetRelationshipsFrom(s) is the relationships whose From is s, in document
\* order, and GetRelationshipsTo(s) is the relationships with s among their
\* To, in document order, each at most once.
C30_IndexesAgreeWithScan ==
    /\ Looked("GetRelationshipsFrom") =>
          reader.list = ScanRelationshipsFrom(reader.doc.Relationships, 1, reader.arg)
    /\ Looked("GetRelationshipsTo") =>
          reader.list = ScanRelationshipsTo(reader.doc.Relationships, 1, reader.arg)

\* the part of C30 about From alone
C30_FromAgreesWithScan ==
    Looked("GetRelationshipsFrom") =>
        reader.list = ScanRelationshipsFrom(reader.doc.Relationships, 1, reader.arg)

\* a relationship whose To names p2 twice is returned twice for p2
C30_ListedTwice ==
    /\ Looked("GetRelationshipsTo")
    /\ reader.arg = "p2"
    /\ Len(reader.doc.Relationships) = 1
    /\ reader.doc.Relationships[1].To = <<"p2", "p2">>
    /\ reader.list = <<1, 1>>


(***************************************************************************)
(* A third vocabulary: individuals whose first type is or is not a class   *)
(* with a parent, two classes under one "@id", and properties typed twice. *)
(***************************************************************************)
FromIRI == spdxBaseURI \o "Core/from"

\* a class under the "@id" of NTool that has no parent
NToolPlain ==
    JObj(("@id" :> JStr(ToolIRI))
         @@ ("@type" :> JArr(<<JStr(owlClass)>>))
         @@ (rdfsComment :> JArr(<<LangLit("A plain tool")>>)))

\* an individual of that class with a comment of its own
NScannerNoted ==
    JObj(("@id" :> JStr(ToolIRI \o "/scanner"))
         @@ ("@type" :> JArr(<<JStr(owlNamedIndividual), JStr(ToolIRI)>>))
         @@ (rdfsComment :> JArr(<<LangLit("A scanner")>>)))

\* an individual with no type under the base URI
NLoner ==
    JObj(("@id" :> JStr(ToolIRI \o "/loner"))
         @@ ("@type" :> JArr(<<JStr(owlNamedIndividual), JStr(FooIRI)>>)))

\* a property typed as datatype property and as object property
NDual ==
    JObj(("@id" :> JStr(NameIRI))
         @@ ("@type" :> JArr(<<JStr(owlDatatypeProperty), JStr(owlObjectProperty)>>))
         @@ (rdfsRange :> JArr(<<Ref(AgentIRI)>>)))

\* an object property
NFrom ==
    JObj(("@id" :> JStr(FromIRI))
         @@ ("@type" :> JArr(<<JStr(owlObjectProperty)>>))
         @@ (rdfsRange :> JArr(<<Ref(AgentIRI)>>)))

EdgePool == <<NTool, NToolPlain, NProbe, NScannerNoted, NLoner, NSha1>>

InitEdge == Idle /\ reader = Nil /\ pool = EdgePool

SpecEdge == InitEdge /\ [][Next]_vars

\* the properties alone, two of them under one "@id"
PropertyPool == <<NDual, NFrom, NName, NToolPlain>>

InitProperties == Idle /\ reader = Nil /\ pool = PropertyPool

SpecProperties == InitProperties /\ [][Next]_vars

(***************************************************************************)
(* A fourth vocabulary: a class whose property list names a blank node     *)
(* twice, blank nodes without a path or with one that is no reference, and *)
(* two blank nodes under one "@id".                                        *)
(***************************************************************************)
NShaped ==
    JObj(("@id" :> JStr(ToolIRI))
         @@ ("@type" :> JArr(<<JStr(owlClass), JStr(shaclNodeShape)>>))
         @@ (shaclProperty :> JArr(<<Ref("_:b3"), Ref("_:b4"), Ref("_:b3"), Ref("_:b1")>>)))

\* a property shape without a path statement
NNoPath ==
    JObj(("@id" :> JStr("_:b3"))
         @@ (shaclDatatype :> JArr(<<Ref("xsd:string")>>)))

\* a property shape whose path statement is no reference
NBadPath ==
    JObj(("@id" :> JStr("_:b4"))
         @@ (shaclPath :> JArr(<<JStr("name")>>))
         @@ (shaclClass :> JArr(<<Ref(AgentIRI)>>))
         @@ (shaclMinCount :> JArr(<<IntLit(1)>>)))

\* a property shape with a path under the "@id" of NNoPath
NPath ==
    JObj(("@id" :> JStr("_:b3"))
         @@ (shaclPath :> JArr(<<Ref(NameIRI)>>)))

\* an abstract-class marker without a path statement
NBareMarker ==
    JObj(("@id" :> JStr("_:b4"))
         @@ (shaclMessage :> JArr(<<StrLit("Tool is an Abstract class")>>)))

ShapePool == <<NShaped, NNoPath, NBadPath, NPath, NBareMarker, NMarker>>

InitShapes == Idle /\ reader = Nil /\ pool = ShapePool

SpecShapes == InitShapes /\ [][Next]_vars


(***************************************************************************)
(* C24                                                                     *)
(***************************************************************************)
\* the types of an indexed individual that name a candidate enum, in order
CandidatesOf(id) == SelectSeq(getTypes(nodes[id]), IsCandidate)

\* the position among them of the first that is no class with a parent in
\* the returned Model, 0 when there is none
FirstAccepted(id) ==
    LET c == CandidatesOf(id)
        ok == {k \in 1..Len(c) : ~IsClassWithParent(c[k])}
    IN  IF ok = {} THEN 0 ELSE CHOOSE k \in ok : \A j \in ok : k <= j

IsValueOf(id, e) ==
    \E i \in 1..Len(ret.model.Enums[e].Values) : ret.model.Enums[e].Values[i].ID = id

\* C24: when the candidate type of an individual is rejected (it is a class
\* with a non-empty Parent) the resolver goes on to the later types in their
\* order: the individual is a value of the enum keyed by its first type under
\* the base URI that is not rejected, and of that enum alone; it is a value
\* of no enum when every such type is rejected or there is none.
C24_FirstAcceptedType ==
    Succeeded =>
        \A id \in DOMAIN nodes :
            IsIndividual(id) =>
                IF FirstAccepted(id) = 0
                THEN ~IsValueOfSomeEnum(id)
                ELSE /\ CandidatesOf(id)[FirstAccepted(id)] \in EnumKeys
                     /\ \A e \in EnumKeys :
                            IsValueOf(id, e) <=> e = CandidatesOf(id)[FirstAccepted(id)]

\* the first type of the probe is a class with a parent, and the probe is a
\* value of the enum of its second type; the scanner, whose only type is
\* that class, and the loner, which has no type under the base URI, are
\* values of no enum
C24_Witness ==
    /\ Succeeded
    /\ IsClassWithParent(ToolIRI)
    /\ ProbeIRI \in DOMAIN nodes
    /\ HashIRI \in EnumKeys
    /\ IsValueOf(ProbeIRI, HashIRI)
    /\ (ToolIRI \o "/scanner") \in DOMAIN nodes
    /\ ~IsValueOfSomeEnum(ToolIRI \o "/scanner")


(***************************************************************************)
(* C25                                                                     *)
(***************************************************************************)
\* the Model the three loops give for an index when each loop takes the
\* keys in one fixed order
ModelOfIndex(idx, blanks) ==
    LET ord == OrderOf(DOMAIN idx)
        n   == Len(ord)
        P1[i \in 0..n] ==
            IF i = 0 THEN NewModel ELSE ClassPass(P1[i - 1], ord[i], idx[ord[i]])
        P2[i \in 0..n] ==
            IF i = 0 THEN P1[n] ELSE EnumPass(P2[i - 1], idx, ord[i], idx[ord[i]])
        P3[i \in 0..n] ==
            IF i = 0 THEN [model |-> P2[n], origin |-> EmptyMap]
            ELSE ShapePass(P3[i - 1].model, P3[i - 1].origin, blanks, ord[i], idx[ord[i]])
    IN  P3[n].model

\* the "@id" values of the array's elements are pairwise distinct
HasDistinctIds(file) ==
    \A i, j \in 1..Size(file) :
        (i # j /\ HasUsableId(file.data.items[i]) /\ HasUsableId(file.data.items[j]))
            => file.data.items[i].f["@id"] # file.data.items[j].f["@id"]

\* the orders in which an array of n elements can be written
Orders(n) == {p \in [1..n -> 1..n] : \A i, j \in 1..n : p[i] = p[j] => i = j}

Reordered(file, p) == File(TRUE, JArr([i \in 1..Len(p) |-> file.data.items[p[i]]]))

\* C25: the Model returned does not depend on the order in which a loop
\* visits the keys of the index, nor, when the "@id" values of the array are
\* pairwise distinct, on the order of the array: Classes (the order of each
\* class's Properties included) and Properties are equal, and Enums are equal
\* when the Values of each are compared as sets.
C25_OrderIndependent ==
    Succeeded =>
        /\ SameModel(ret.model, ModelOfIndex(nodes, blankNodes))
        /\ (calls = 1 /\ HasDistinctIds(input)) =>
              \A p \in Orders(Size(input)) :
                  SameModel(ret.model, FreshModel(Reordered(input, p)))

\* two individuals of one enum were visited in the order that is not the
\* fixed one: the Values are the same set in another order
C25_Witness ==
    /\ Succeeded
    /\ calls = 1
    /\ HasDistinctIds(input)
    /\ Size(input) = 3
    /\ ToolIRI \in EnumKeys
    /\ ret.model.Enums[ToolIRI].Comment = "A plain tool"
    /\ Len(ret.model.Enums[ToolIRI].Values) = 2
    /\ ret.model.Enums[ToolIRI].Values
          # ModelOfIndex(nodes, blankNodes).Enums[ToolIRI].Values


(***************************************************************************)
(* C26                                                                     *)
(***************************************************************************)
\* C26: a node typed as object property and as datatype property gives one
\* entry of Properties, under its id, whose IsObject is false; so IsObject
\* of an entry is true exactly when the types of its node hold the
\* object-property marker and not the datatype-property marker.
C26_DatatypeWins ==
    Succeeded =>
        /\ \A id \in DOMAIN nodes :
              (HasType(id, owlObjectProperty) /\ HasType(id, owlDatatypeProperty)) =>
                  /\ id \in PropKeys
                  /\ ret.model.Properties[id] = parseProperty(id, nodes[id], FALSE)
        /\ \A id \in PropKeys :
              /\ id \in DOMAIN nodes
              /\ ret.model.Properties[id].IsObject
                    <=> (HasType(id, owlObjectProperty) /\ ~HasType(id, owlDatatypeProperty))

\* a node with both markers and a node with the object marker alone are
\* properties of one returned Model
C26_Witness ==
    /\ Succeeded
    /\ NameIRI \in PropKeys
    /\ HasType(NameIRI, owlObjectProperty)
    /\ HasType(NameIRI, owlDatatypeProperty)
    /\ ~ret.model.Properties[NameIRI].IsObject
    /\ FromIRI \in PropKeys
    /\ ret.model.Properties[FromIRI].IsObject


(***************************************************************************)
(* C27                                                                     *)
(***************************************************************************)
\* element i of the array has a usable "@id" that a later element repeats
IsOverridden(file, i) ==
    /\ HasUsableId(file.data.items[i])
    /\ \E j \in (i + 1)..Size(file) :
          /\ HasUsableId(file.data.items[j])
          /\ file.data.items[j].f["@id"] = file.data.items[i].f["@id"]

HasOverridden(file) == \E i \in 1..Size(file) : IsOverridden(file, i)

\* the positions, in order, of the elements that no later element overrides
RECURSIVE KeptFrom(_, _)
KeptFrom(file, i) ==
    IF i > Size(file) THEN <<>>
    ELSE (IF IsOverridden(file, i) THEN <<>> ELSE <<i>>) \o KeptFrom(file, i + 1)

\* the file without the elements that a later element overrides
LastOnly(file) ==
    IF file.data.t = "array"
    THEN File(TRUE, JArr([k \in 1..Len(KeptFrom(file, 1)) |->
                            file.data.items[KeptFrom(file, 1)[k]]]))
    ELSE file

\* C27: of several nodes of the array under one "@id" only the last in array
\* order is indexed, and the three loops use it alone: the index holds the
\* last node under each id of the array, the Model returned is the Model of
\* the index, and a first call returns what it returns for the array without
\* the earlier nodes, whose statements and types have no effect.
C27_LastNodeWins ==
    Succeeded =>
        /\ \A i \in 1..Size(input) :
              (HasUsableId(input.data.items[i]) /\ ~IsOverridden(input, i)) =>
                  LET id == input.data.items[i].f["@id"].s
                  IN  IF IsBlankId(id)
                      THEN id \in DOMAIN blankNodes /\ blankNodes[id] = input.data.items[i].f
                      ELSE id \in DOMAIN nodes /\ nodes[id] = input.data.items[i].f
        /\ SameModel(ret.model, ModelOfIndex(nodes, blankNodes))
        /\ calls = 1 => SameModel(ret.model, FreshModel(LastOnly(input)))

\* the class with a parent stands before the class without one under the
\* same id: the scanner is a value of the enum that the later node allows
C27_Witness ==
    /\ Succeeded
    /\ calls = 1
    /\ Size(input) = 3
    /\ input.data.items[1] = NTool
    /\ input.data.items[2] = NToolPlain
    /\ input.data.items[3] = NScannerNoted
    /\ ret.model.Classes[ToolIRI].Parent = ""
    /\ ret.model.Classes[ToolIRI].Comment = "A plain tool"
    /\ ToolIRI \in EnumKeys


(***************************************************************************)
(* C28                                                                     *)
(***************************************************************************)
\* the candidate type under which the indexed individual id is filed
FiledUnder(id) == CandidatesOf(id)[FirstAccepted(id)]

\* C28: an Enum is made under a candidate type whenever that type is no
\* class with a non-empty Parent: also when the input has no node of that
\* IRI, and the Enum's Comment is then empty, and when the IRI is a class
\* without a parent, and it is then a key of Classes and of Enums and the
\* Enum's Comment is the comment of the class node.
C28_EnumForEveryAccepted ==
    Succeeded =>
        \A id \in DOMAIN nodes :
            (IsIndividual(id) /\ FirstAccepted(id) # 0) =>
                /\ FiledUnder(id) \in EnumKeys
                /\ ret.model.Enums[FiledUnder(id)].ID = FiledUnder(id)
                /\ FiledUnder(id) \notin DOMAIN nodes =>
                      ret.model.Enums[FiledUnder(id)].Comment = ""
                /\ FiledUnder(id) \in DOMAIN nodes =>
                      ret.model.Enums[FiledUnder(id)].Comment = getComment(nodes[FiledUnder(id)])
                /\ FiledUnder(id) \in ClassKeys =>
                      /\ ret.model.Classes[FiledUnder(id)].Parent = ""
                      /\ ret.model.Enums[FiledUnder(id)].Comment
                            = ret.model.Classes[FiledUnder(id)].Comment

\* one returned Model holds an Enum under a class without a parent, with the
\* comment of the class, and an Enum under an IRI that no node carries
C28_Witness ==
    /\ Succeeded
    /\ ToolIRI \in ClassKeys
    /\ ToolIRI \in EnumKeys
    /\ ret.model.Classes[ToolIRI].Parent = ""
    /\ ret.model.Enums[ToolIRI].Comment = "A plain tool"
    /\ HashIRI \in EnumKeys
    /\ HashIRI \notin DOMAIN nodes
    /\ ret.model.Enums[HashIRI].Comment = ""


(***************************************************************************)
(* C29                                                                     *)
(***************************************************************************)
\* the blank node has no path statement, or one whose first value is no
\* object and so cannot be read as a reference
IsPathless(node) ==
    \/ shaclPath \notin DOMAIN node
    \/ /\ node[shaclPath].t = "array"
       /\ Len(node[shaclPath].items) > 0
       /\ node[shaclPath].items[1].t \in {"string", "number", "array"}

\* the entries of X's property list that name an indexed blank node that is
\* no marker, each as often as the list holds it
KeptEntries(X) == SelectSeq(StatementsOf(nodes[X], shaclProperty), IsKeptEntry)

\* the class X of the returned Model has one PropertyRef for each kept entry
\* of its list, in list order, from the blank node the entry names
NoEntryDropped(X) ==
    /\ Len(ret.model.Classes[X].Properties) = Len(KeptEntries(X))
    /\ origin[X] = [i \in 1..Len(KeptEntries(X)) |-> KeptEntries(X)[i].f["@id"].s]

\* C29 as stated: a resolvable blank node of a property list that has no
\* path statement, or an unparseable one, and is no marker is appended as a
\* PropertyRef with empty Path and Name, MinCount 0 and MaxCount -1; no such
\* entry is dropped, so an entry repeated k times gives k PropertyRefs.
C29_PathlessDefaults ==
    Succeeded =>
        \A X \in ClassKeys :
            IsShape(X) =>
                /\ NoEntryDropped(X)
                /\ \A i \in 1..Len(origin[X]) :
                      IsPathless(blankNodes[origin[X][i]]) =>
                          /\ ret.model.Classes[X].Properties[i].Path = ""
                          /\ ret.model.Classes[X].Properties[i].Name = ""
                          /\ ret.model.Classes[X].Properties[i].MinCount = 0
                          /\ ret.model.Classes[X].Properties[i].MaxCount = -1

\* C29 amended: the PropertyRef of such a node has empty Path and Name, and
\* MinCount 0 and MaxCount -1 where the node states no count of that kind.
C29_PathlessAppended ==
    Succeeded =>
        \A X \in ClassKeys :
            IsShape(X) =>
                /\ NoEntryDropped(X)
                /\ \A i \in 1..Len(origin[X]) :
                      IsPathless(blankNodes[origin[X][i]]) =>
                          /\ ret.model.Classes[X].Properties[i].Path = ""
                          /\ ret.model.Classes[X].Properties[i].Name = ""
                          /\ shaclMinCount \notin DOMAIN blankNodes[origin[X][i]] =>
                                ret.model.Classes[X].Properties[i].MinCount = 0
                          /\ shaclMaxCount \notin DOMAIN blankNodes[origin[X][i]] =>
                                ret.model.Classes[X].Properties[i].MaxCount = -1

\* the list names a node without a path twice and, between, a node with an
\* unparseable path: three PropertyRefs, the first and the third equal
C29_Witness ==
    /\ Succeeded
    /\ ToolIRI \in ClassKeys
    /\ origin[ToolIRI] = <<"_:b3", "_:b4", "_:b3">>
    /\ IsPathless(blankNodes["_:b3"])
    /\ IsPathless(blankNodes["_:b4"])
    /\ ~IsMarkerBlank("_:b4")
    /\ Len(ret.model.Classes[ToolIRI].Properties) = 3
    /\ ret.model.Classes[ToolIRI].Properties[1] = ret.model.Classes[ToolIRI].Properties[3]
    /\ ret.model.Classes[ToolIRI].Properties[1].MaxCount = -1

====
